---- MODULE Spec2Model ----
(***************************************************************************)
(* Decoding of Conway ledger predicate failures (docs/error_parser.rs).    *)
(*                                                                         *)
(* The decoder is a set of pure functions over CBOR terms.  Each function  *)
(* of the source is an operator here, translated arm by arm; the state     *)
(* machine is a caller that holds one input, calls one function on it and  *)
(* keeps the result.  Init draws the input from bounded families of CBOR   *)
(* values.                                                                 *)
(*                                                                         *)
(* Encoding of the data types:                                             *)
(*   Value / Term   records [k |-> <variant>, <payload field> |-> ...], the *)
(*                  payload field named after the variant (int, bytes,     *)
(*                  text, bool, float, items, entries; tag and inner for a *)
(*                  semantic tag).                                         *)
(*   Integer        ciborium's Integer (an i128) in sign and magnitude,    *)
(*                  the magnitude in base 2^64: [neg, hi, lo] stands for   *)
(*                  (-1)^neg * (hi * 2^64 + lo).                           *)
(*   Result         Ok(v) / Err(e);  Option: Some(v) / None.               *)
(*   typed failure  [enum |-> type, ctor |-> variant, fields |-> ...],     *)
(*                  the fields a record by name for a struct variant and a *)
(*                  tuple for a tuple or unit variant.                     *)
(***************************************************************************)
EXTENDS Integers, Sequences, FiniteSets, TLC

VARIABLES
    op,     \* the function the caller calls
    arg,    \* its input
    res,    \* its result, once it has returned
    pc,     \* "ready" before the call, "done" after it
    history, \* the calls that have returned, oldest first: [op, arg, res]
    threads, \* the calls that run side by side: [op, input, pc, res] of each thread
    frames   \* the locals of the running calls, one frame for each call

vars == <<op, arg, res, pc, history, threads, frames>>

--------------------------------------------------------------------------
\* Result<T, E> and Option<T>.
Ok(v) == [ok |-> TRUE, val |-> v]

Err(e) == [ok |-> FALSE, err |-> e]

Some(v) == [some |-> TRUE, val |-> v]

None == [some |-> FALSE]

\* enum ParseError.
Malformed(msg) == [variant |-> "Malformed", msg |-> msg]

Cbor == [variant |-> "Cbor"]

\* The unit error of TryFrom<u64>.
UnitError == [variant |-> "()"]

\* The ? operator: an Err is returned to the caller as it is, an Ok value is
\* handed to the rest of the function.
Try(result, Rest(_)) == IF result.ok THEN Rest(result.val) ELSE result

--------------------------------------------------------------------------
\* Term::from_value: ciborium's Value to Term, variant by variant.
RECURSIVE Term_from_value(_)
Term_from_value(value) ==
    CASE value.k = "Integer" -> [k |-> "Integer", int |-> value.int]
      [] value.k = "Bytes" -> [k |-> "Bytes", bytes |-> value.bytes]
      [] value.k = "Text" -> [k |-> "Text", text |-> value.text]
      [] value.k = "Bool" -> [k |-> "Bool", bool |-> value.bool]
      [] value.k = "Null" -> [k |-> "Null"]
      [] value.k = "Float" -> [k |-> "Float", float |-> value.float]
      [] value.k = "Array" ->
          [k |-> "Array",
           items |-> [i \in 1..Len(value.items) |-> Term_from_value(value.items[i])]]
      [] value.k = "Map" ->
          [k |-> "Map",
           entries |-> [i \in 1..Len(value.entries) |->
                          <<Term_from_value(value.entries[i][1]),
                            Term_from_value(value.entries[i][2])>>]]
      [] value.k = "Tag" ->
          [k |-> "Tagged", tag |-> value.tag, inner |-> Term_from_value(value.inner)]

\* Term::as_unsigned with a cast in place of the checked conversion: the magnitude
\* above 2^64 is dropped.
Term_as_unsigned_wrapping(term) ==
    IF term.k = "Integer"
    THEN IF ~term.int.neg THEN Some(term.int.lo) ELSE None
    ELSE None

\* Term::as_unsigned that takes the magnitude of a negative integer.
Term_as_unsigned_magnitude(term) ==
    IF term.k = "Integer"
    THEN IF term.int.hi = 0 THEN Some(term.int.lo) ELSE None
    ELSE None

\* Term::as_unsigned: u64::try_from(Integer) succeeds exactly on 0 .. 2^64 - 1.
Term_as_unsigned(term) ==
    IF term.k = "Integer"
    THEN IF ~term.int.neg /\ term.int.hi = 0 THEN Some(term.int.lo) ELSE None
    ELSE None

\* TaggedSum::from_term without the arm of the semantic tag.
TaggedSum_from_term_arrays_only(term) ==
    CASE term.k = "Array" /\ Len(term.items) # 0 ->
          LET tag == Term_as_unsigned(Head(term.items))
          IN  IF ~tag.some THEN None
              ELSE Some([tag |-> tag.val, fields |-> Tail(term.items)])
      [] OTHER -> None

\* TaggedSum::from_term.
TaggedSum_from_term(term) ==
    CASE term.k = "Array" /\ Len(term.items) # 0 ->
          LET tag_term == Head(term.items)
              elements == Tail(term.items)
              tag == Term_as_unsigned(tag_term)
          IN  IF ~tag.some THEN None
              ELSE Some([tag |-> tag.val, fields |-> elements])
      [] term.k = "Tagged" ->
          IF term.inner.k = "Array"
          THEN Some([tag |-> term.tag, fields |-> term.inner.items])
          ELSE None
      [] OTHER -> None

\* TaggedTree::from_term without the recursion: every field is a leaf.
TaggedTree_from_term_flat(term) ==
    LET recognised == TaggedSum_from_term(term) IN
    IF recognised.some
    THEN [node |-> "Sum", sum |-> recognised.val,
          children |-> [i \in 1..Len(recognised.val.fields) |->
                          [node |-> "Leaf", term |-> recognised.val.fields[i]]]]
    ELSE [node |-> "Leaf", term |-> term]

\* TaggedTree::from_term that takes the fields from the end: the children come out
\* in the opposite order.
RECURSIVE TaggedTree_from_term_reversed(_)
TaggedTree_from_term_reversed(term) ==
    LET recognised == TaggedSum_from_term(term) IN
    IF recognised.some
    THEN [node |-> "Sum", sum |-> recognised.val,
          children |-> [i \in 1..Len(recognised.val.fields) |->
                          TaggedTree_from_term_reversed(
                              recognised.val.fields[Len(recognised.val.fields) + 1 - i])]]
    ELSE [node |-> "Leaf", term |-> term]

\* TaggedTree::from_term that goes into the arrays that are no tagged sum, as into a
\* sum of tag 0.
RECURSIVE TaggedTree_from_term_into_arrays(_)
TaggedTree_from_term_into_arrays(term) ==
    LET recognised == IF TaggedSum_from_term(term).some \/ term.k # "Array"
                      THEN TaggedSum_from_term(term)
                      ELSE Some([tag |-> 0, fields |-> term.items])
    IN
    IF recognised.some
    THEN LET sum == recognised.val
             children == [i \in 1..Len(sum.fields) |-> TaggedTree_from_term_into_arrays(sum.fields[i])]
         IN  [node |-> "Sum", sum |-> sum, children |-> children]
    ELSE [node |-> "Leaf", term |-> term]

\* TaggedTree::from_term.
RECURSIVE TaggedTree_from_term(_)
TaggedTree_from_term(term) ==
    LET recognised == TaggedSum_from_term(term) IN
    IF recognised.some
    THEN LET sum == recognised.val
             children == [i \in 1..Len(sum.fields) |-> TaggedTree_from_term(sum.fields[i])]
         IN  [node |-> "Sum", sum |-> sum, children |-> children]
    ELSE [node |-> "Leaf", term |-> term]

\* from_reader whose error is reported as a violation of the shape.
de_from_reader_as_malformed(reader) ==
    IF reader.ok THEN Ok(reader.val) ELSE Err(Malformed("not well-formed CBOR"))

\* de::from_reader(reader)?, with From<de::Error> for ParseError.  reader is the
\* outcome of ciborium's deserializer on the caller's bytes: Ok(value), or Err when
\* the bytes are not one CBOR item.
de_from_reader(reader) == IF reader.ok THEN Ok(reader.val) ELSE Err(Cbor)

\* decode_predicate_failure without the check of the root.
decode_predicate_failure_unchecked(reader) ==
    Try(de_from_reader(reader), LAMBDA value:
    Ok(TaggedTree_from_term(Term_from_value(value))))

\* decode_predicate_failure that asks for an array at the root in place of a sum.
decode_predicate_failure_arrays_only(reader) ==
    Try(de_from_reader(reader), LAMBDA value:
    IF Term_from_value(value).k # "Array"
    THEN Err(Malformed("expected a tagged sum"))
    ELSE Ok(TaggedTree_from_term(Term_from_value(value))))

\* fn decode_predicate_failure.
decode_predicate_failure(reader) ==
    Try(de_from_reader(reader), LAMBDA value:
    LET root == Term_from_value(value) IN
    IF ~TaggedSum_from_term(root).some
    THEN Err(Malformed("expected a tagged sum"))
    ELSE Ok(TaggedTree_from_term(root)))

--------------------------------------------------------------------------
\* extract_bytes that looks through semantic tags only.
RECURSIVE extract_bytes_tags_only(_)
extract_bytes_tags_only(term) ==
    CASE term.k = "Bytes" -> Ok(term.bytes)
      [] term.k = "Tagged" -> extract_bytes_tags_only(term.inner)
      [] OTHER -> Err(Malformed("expected byte string payload"))

\* extract_bytes without the loop: one wrapper is peeled at most.
extract_bytes_once(term) ==
    LET peeled == CASE term.k = "Array" /\ Len(term.items) = 1 -> Head(term.items)
                    [] term.k = "Tagged" -> term.inner
                    [] OTHER -> term
    IN  IF peeled.k = "Bytes"
        THEN Ok(peeled.bytes)
        ELSE Err(Malformed("expected byte string payload"))

\* extract_bytes that takes the first item of an array of any length.
RECURSIVE extract_bytes_first_item(_)
extract_bytes_first_item(term) ==
    CASE term.k = "Bytes" -> Ok(term.bytes)
      [] term.k = "Array" /\ Len(term.items) >= 1 -> extract_bytes_first_item(Head(term.items))
      [] term.k = "Tagged" -> extract_bytes_first_item(term.inner)
      [] OTHER -> Err(Malformed("expected byte string payload"))

\* fn extract_bytes: the loop peels one-element arrays and semantic tags.
RECURSIVE extract_bytes(_)
extract_bytes(term) ==
    CASE term.k = "Bytes" -> Ok(term.bytes)
      [] term.k = "Array" /\ Len(term.items) = 1 -> extract_bytes(Head(term.items))
      [] term.k = "Tagged" -> extract_bytes(term.inner)
      [] OTHER -> Err(Malformed("expected byte string payload"))

\* expect_fields that only asks for enough fields.
expect_fields_at_least(fields, expected, context) ==
    IF Len(fields) < expected
    THEN Err(Malformed(context))
    ELSE Ok(fields)

\* fn expect_fields.
expect_fields(fields, expected, context) ==
    IF Len(fields) # expected
    THEN Err(Malformed(context))
    ELSE Ok(fields)

\* fn expect_single_field.
expect_single_field(fields, context) ==
    Try(expect_fields(fields, 1, context), LAMBDA checked:
    Ok(Head(checked)))

\* expect_two_fields that takes the fields from the end of the vector.
expect_two_fields_from_the_end(fields, context) ==
    Try(expect_fields(fields, 2, context), LAMBDA checked:
    LET first == checked[Len(checked)]
        second == checked[Len(checked) - 1]
    IN  Ok(<<first, second>>))

\* fn expect_two_fields.
expect_two_fields(fields, context) ==
    Try(expect_fields(fields, 2, context), LAMBDA checked:
    LET first == Head(checked)
        second == Head(Tail(checked))
    IN  Ok(<<first, second>>))

\* fn expect_no_fields.
expect_no_fields(fields, context) ==
    IF Len(fields) = 0 THEN Ok(<<>>) ELSE Err(Malformed(context))

--------------------------------------------------------------------------
\* enum ConwayLedgerPredicateFailureTag: the discriminant of each tag constructor.
ConwayLedgerPredicateFailureTag ==
    [ ConwayUtxowFailure |-> 1,
      ConwayCertsFailure |-> 2,
      ConwayGovFailure |-> 3,
      ConwayWdrlNotDelegatedToDRep |-> 4,
      ConwayTreasuryValueMismatch |-> 5,
      ConwayTxRefScriptsSizeTooBig |-> 6,
      ConwayMempoolFailure |-> 7,
      ConwayWithdrawalsMissingAccounts |-> 8,
      ConwayIncompleteWithdrawals |-> 9 ]

\* enum ConwayUtxowPredicateFailureTag: the discriminant of each tag constructor.
ConwayUtxowPredicateFailureTag ==
    [ UtxoFailure |-> 0,
      InvalidWitnessesUTXOW |-> 1,
      MissingVKeyWitnessesUTXOW |-> 2,
      MissingScriptWitnessesUTXOW |-> 3,
      ScriptWitnessNotValidatingUTXOW |-> 4,
      MissingTxBodyMetadataHash |-> 5,
      MissingTxMetadata |-> 6,
      ConflictingMetadataHash |-> 7,
      InvalidMetadata |-> 8,
      ExtraneousScriptWitnessesUTXOW |-> 9,
      MissingRedeemers |-> 10,
      MissingRequiredDatums |-> 11,
      NotAllowedSupplementalDatums |-> 12,
      PPViewHashesDontMatch |-> 13,
      UnspendableUTxONoDatumHash |-> 14,
      ExtraRedeemers |-> 15,
      MalformedScriptWitnesses |-> 16,
      MalformedReferenceScripts |-> 17,
      ScriptIntegrityHashMismatch |-> 18 ]

\* enum ConwayUtxoPredicateFailureTag: the discriminant of each tag constructor.
ConwayUtxoPredicateFailureTag ==
    [ UtxosFailure |-> 0,
      BadInputsUTxO |-> 1,
      OutsideValidityIntervalUTxO |-> 2,
      MaxTxSizeUTxO |-> 3,
      InputSetEmptyUTxO |-> 4,
      FeeTooSmallUTxO |-> 5,
      ValueNotConservedUTxO |-> 6,
      WrongNetwork |-> 7,
      WrongNetworkWithdrawal |-> 8,
      OutputTooSmallUTxO |-> 9,
      OutputBootAddrAttrsTooBig |-> 10,
      OutputTooBigUTxO |-> 11,
      InsufficientCollateral |-> 12,
      ScriptsNotPaidUTxO |-> 13,
      ExUnitsTooBigUTxO |-> 14,
      CollateralContainsNonADA |-> 15,
      WrongNetworkInTxBody |-> 16,
      OutsideForecast |-> 17,
      TooManyCollateralInputs |-> 18,
      NoCollateralInputs |-> 19,
      IncorrectTotalCollateralField |-> 20,
      BabbageOutputTooSmallUTxO |-> 21,
      BabbageNonDisjointRefInputs |-> 22 ]

\* enum ConwayUtxosPredicateFailureTag: the discriminant of each tag constructor.
ConwayUtxosPredicateFailureTag ==
    [ ValidationTagMismatch |-> 0,
      CollectErrors |-> 1 ]

\* enum ConwayCertsPredicateFailureTag: the discriminant of each tag constructor.
ConwayCertsPredicateFailureTag ==
    [ WithdrawalsNotInRewardsCERTS |-> 0,
      CertFailure |-> 1 ]

\* enum ConwayCertPredicateFailureTag: the discriminant of each tag constructor.
ConwayCertPredicateFailureTag ==
    [ DelegFailure |-> 1,
      PoolFailure |-> 2,
      GovCertFailure |-> 3 ]

\* enum ConwayDelegPredicateFailureTag: the discriminant of each tag constructor.
ConwayDelegPredicateFailureTag ==
    [ IncorrectDepositDELEG |-> 1,
      StakeKeyRegisteredDELEG |-> 2,
      StakeKeyNotRegisteredDELEG |-> 3,
      StakeKeyHasNonZeroRewardAccountBalanceDELEG |-> 4,
      DelegateeDRepNotRegisteredDELEG |-> 5,
      DelegateeStakePoolNotRegisteredDELEG |-> 6,
      DepositIncorrectDELEG |-> 7,
      RefundIncorrectDELEG |-> 8 ]

\* enum ConwayGovCertPredicateFailureTag: the discriminant of each tag constructor.
ConwayGovCertPredicateFailureTag ==
    [ ConwayDRepAlreadyRegistered |-> 0,
      ConwayDRepNotRegistered |-> 1,
      ConwayDRepIncorrectDeposit |-> 2,
      ConwayCommitteeHasPreviouslyResigned |-> 3,
      ConwayDRepIncorrectRefund |-> 4,
      ConwayCommitteeIsUnknown |-> 5 ]

\* enum ConwayGovPredicateFailureTag: the discriminant of each tag constructor.
ConwayGovPredicateFailureTag ==
    [ GovActionsDoNotExist |-> 0,
      MalformedProposal |-> 1,
      ProposalProcedureNetworkIdMismatch |-> 2,
      TreasuryWithdrawalsNetworkIdMismatch |-> 3,
      ProposalDepositIncorrect |-> 4,
      DisallowedVoters |-> 5,
      ConflictingCommitteeUpdate |-> 6,
      ExpirationEpochTooSmall |-> 7,
      InvalidPrevGovActionId |-> 8,
      VotingOnExpiredGovAction |-> 9,
      ProposalCantFollow |-> 10,
      InvalidPolicyHash |-> 11,
      DisallowedProposalDuringBootstrap |-> 12,
      DisallowedVotesDuringBootstrap |-> 13,
      VotersDoNotExist |-> 14,
      ZeroTreasuryWithdrawals |-> 15,
      ProposalReturnAccountDoesNotExist |-> 16,
      TreasuryWithdrawalReturnAccountsDoNotExist |-> 17,
      UnelectedCommitteeVoters |-> 18 ]

\* impl TryFrom<u64> for ConwayLedgerPredicateFailureTag: the match of try_from, arm by arm.
ConwayLedgerPredicateFailureTag_try_from(value) ==
    CASE value = 1 -> Ok("ConwayUtxowFailure")
      [] value = 2 -> Ok("ConwayCertsFailure")
      [] value = 3 -> Ok("ConwayGovFailure")
      [] value = 4 -> Ok("ConwayWdrlNotDelegatedToDRep")
      [] value = 5 -> Ok("ConwayTreasuryValueMismatch")
      [] value = 6 -> Ok("ConwayTxRefScriptsSizeTooBig")
      [] value = 7 -> Ok("ConwayMempoolFailure")
      [] value = 8 -> Ok("ConwayWithdrawalsMissingAccounts")
      [] value = 9 -> Ok("ConwayIncompleteWithdrawals")
      [] OTHER -> Err(UnitError)

\* impl TryFrom<u64> for ConwayUtxowPredicateFailureTag: the match of try_from, arm by arm.
ConwayUtxowPredicateFailureTag_try_from(value) ==
    CASE value = 0 -> Ok("UtxoFailure")
      [] value = 1 -> Ok("InvalidWitnessesUTXOW")
      [] value = 2 -> Ok("MissingVKeyWitnessesUTXOW")
      [] value = 3 -> Ok("MissingScriptWitnessesUTXOW")
      [] value = 4 -> Ok("ScriptWitnessNotValidatingUTXOW")
      [] value = 5 -> Ok("MissingTxBodyMetadataHash")
      [] value = 6 -> Ok("MissingTxMetadata")
      [] value = 7 -> Ok("ConflictingMetadataHash")
      [] value = 8 -> Ok("InvalidMetadata")
      [] value = 9 -> Ok("ExtraneousScriptWitnessesUTXOW")
      [] value = 10 -> Ok("MissingRedeemers")
      [] value = 11 -> Ok("MissingRequiredDatums")
      [] value = 12 -> Ok("NotAllowedSupplementalDatums")
      [] value = 13 -> Ok("PPViewHashesDontMatch")
      [] value = 14 -> Ok("UnspendableUTxONoDatumHash")
      [] value = 15 -> Ok("ExtraRedeemers")
      [] value = 16 -> Ok("MalformedScriptWitnesses")
      [] value = 17 -> Ok("MalformedReferenceScripts")
      [] value = 18 -> Ok("ScriptIntegrityHashMismatch")
      [] OTHER -> Err(UnitError)

\* impl TryFrom<u64> for ConwayUtxoPredicateFailureTag: the match of try_from, arm by arm.
ConwayUtxoPredicateFailureTag_try_from(value) ==
    CASE value = 0 -> Ok("UtxosFailure")
      [] value = 1 -> Ok("BadInputsUTxO")
      [] value = 2 -> Ok("OutsideValidityIntervalUTxO")
      [] value = 3 -> Ok("MaxTxSizeUTxO")
      [] value = 4 -> Ok("InputSetEmptyUTxO")
      [] value = 5 -> Ok("FeeTooSmallUTxO")
      [] value = 6 -> Ok("ValueNotConservedUTxO")
      [] value = 7 -> Ok("WrongNetwork")
      [] value = 8 -> Ok("WrongNetworkWithdrawal")
      [] value = 9 -> Ok("OutputTooSmallUTxO")
      [] value = 10 -> Ok("OutputBootAddrAttrsTooBig")
      [] value = 11 -> Ok("OutputTooBigUTxO")
      [] value = 12 -> Ok("InsufficientCollateral")
      [] value = 13 -> Ok("ScriptsNotPaidUTxO")
      [] value = 14 -> Ok("ExUnitsTooBigUTxO")
      [] value = 15 -> Ok("CollateralContainsNonADA")
      [] value = 16 -> Ok("WrongNetworkInTxBody")
      [] value = 17 -> Ok("OutsideForecast")
      [] value = 18 -> Ok("TooManyCollateralInputs")
      [] value = 19 -> Ok("NoCollateralInputs")
      [] value = 20 -> Ok("IncorrectTotalCollateralField")
      [] value = 21 -> Ok("BabbageOutputTooSmallUTxO")
      [] value = 22 -> Ok("BabbageNonDisjointRefInputs")
      [] OTHER -> Err(UnitError)

\* try_from of ConwayUtxosPredicateFailureTag with the tags counted from one.
ConwayUtxosPredicateFailureTag_try_from_one_based(value) ==
    CASE value = 1 -> Ok("ValidationTagMismatch")
      [] value = 2 -> Ok("CollectErrors")
      [] OTHER -> Err(UnitError)

\* impl TryFrom<u64> for ConwayUtxosPredicateFailureTag: the match of try_from, arm by arm.
ConwayUtxosPredicateFailureTag_try_from(value) ==
    CASE value = 0 -> Ok("ValidationTagMismatch")
      [] value = 1 -> Ok("CollectErrors")
      [] OTHER -> Err(UnitError)

\* try_from of ConwayCertsPredicateFailureTag with a catch-all last arm.
ConwayCertsPredicateFailureTag_try_from_catch_all(value) ==
    CASE value = 0 -> Ok("WithdrawalsNotInRewardsCERTS")
      [] OTHER -> Ok("CertFailure")

\* impl TryFrom<u64> for ConwayCertsPredicateFailureTag: the match of try_from, arm by arm.
ConwayCertsPredicateFailureTag_try_from(value) ==
    CASE value = 0 -> Ok("WithdrawalsNotInRewardsCERTS")
      [] value = 1 -> Ok("CertFailure")
      [] OTHER -> Err(UnitError)

\* try_from of ConwayCertPredicateFailureTag with the tags counted from zero.
ConwayCertPredicateFailureTag_try_from_zero_based(value) ==
    CASE value = 0 -> Ok("DelegFailure")
      [] value = 1 -> Ok("PoolFailure")
      [] value = 2 -> Ok("GovCertFailure")
      [] OTHER -> Err(UnitError)

\* impl TryFrom<u64> for ConwayCertPredicateFailureTag: the match of try_from, arm by arm.
ConwayCertPredicateFailureTag_try_from(value) ==
    CASE value = 1 -> Ok("DelegFailure")
      [] value = 2 -> Ok("PoolFailure")
      [] value = 3 -> Ok("GovCertFailure")
      [] OTHER -> Err(UnitError)

\* impl TryFrom<u64> for ConwayDelegPredicateFailureTag: the match of try_from, arm by arm.
ConwayDelegPredicateFailureTag_try_from(value) ==
    CASE value = 1 -> Ok("IncorrectDepositDELEG")
      [] value = 2 -> Ok("StakeKeyRegisteredDELEG")
      [] value = 3 -> Ok("StakeKeyNotRegisteredDELEG")
      [] value = 4 -> Ok("StakeKeyHasNonZeroRewardAccountBalanceDELEG")
      [] value = 5 -> Ok("DelegateeDRepNotRegisteredDELEG")
      [] value = 6 -> Ok("DelegateeStakePoolNotRegisteredDELEG")
      [] value = 7 -> Ok("DepositIncorrectDELEG")
      [] value = 8 -> Ok("RefundIncorrectDELEG")
      [] OTHER -> Err(UnitError)

\* try_from of the gov-cert tags with the two committee constructors exchanged.
ConwayGovCertPredicateFailureTag_try_from_exchanged(value) ==
    CASE value = 0 -> Ok("ConwayDRepAlreadyRegistered")
      [] value = 1 -> Ok("ConwayDRepNotRegistered")
      [] value = 2 -> Ok("ConwayDRepIncorrectDeposit")
      [] value = 3 -> Ok("ConwayCommitteeIsUnknown")
      [] value = 4 -> Ok("ConwayDRepIncorrectRefund")
      [] value = 5 -> Ok("ConwayCommitteeHasPreviouslyResigned")
      [] OTHER -> Err(UnitError)

\* impl TryFrom<u64> for ConwayGovCertPredicateFailureTag: the match of try_from, arm by arm.
ConwayGovCertPredicateFailureTag_try_from(value) ==
    CASE value = 0 -> Ok("ConwayDRepAlreadyRegistered")
      [] value = 1 -> Ok("ConwayDRepNotRegistered")
      [] value = 2 -> Ok("ConwayDRepIncorrectDeposit")
      [] value = 3 -> Ok("ConwayCommitteeHasPreviouslyResigned")
      [] value = 4 -> Ok("ConwayDRepIncorrectRefund")
      [] value = 5 -> Ok("ConwayCommitteeIsUnknown")
      [] OTHER -> Err(UnitError)

\* impl TryFrom<u64> for ConwayGovPredicateFailureTag: the match of try_from, arm by arm.
ConwayGovPredicateFailureTag_try_from(value) ==
    CASE value = 0 -> Ok("GovActionsDoNotExist")
      [] value = 1 -> Ok("MalformedProposal")
      [] value = 2 -> Ok("ProposalProcedureNetworkIdMismatch")
      [] value = 3 -> Ok("TreasuryWithdrawalsNetworkIdMismatch")
      [] value = 4 -> Ok("ProposalDepositIncorrect")
      [] value = 5 -> Ok("DisallowedVoters")
      [] value = 6 -> Ok("ConflictingCommitteeUpdate")
      [] value = 7 -> Ok("ExpirationEpochTooSmall")
      [] value = 8 -> Ok("InvalidPrevGovActionId")
      [] value = 9 -> Ok("VotingOnExpiredGovAction")
      [] value = 10 -> Ok("ProposalCantFollow")
      [] value = 11 -> Ok("InvalidPolicyHash")
      [] value = 12 -> Ok("DisallowedProposalDuringBootstrap")
      [] value = 13 -> Ok("DisallowedVotesDuringBootstrap")
      [] value = 14 -> Ok("VotersDoNotExist")
      [] value = 15 -> Ok("ZeroTreasuryWithdrawals")
      [] value = 16 -> Ok("ProposalReturnAccountDoesNotExist")
      [] value = 17 -> Ok("TreasuryWithdrawalReturnAccountsDoNotExist")
      [] value = 18 -> Ok("UnelectedCommitteeVoters")
      [] OTHER -> Err(UnitError)

\* enum ConwayLedgerPredicateFailure: its variants in declaration order, each with its shape and
\* the names of its fields (a tuple variant's fields are named by position).
ConwayLedgerPredicateFailure ==
    << [ctor |-> "UtxowFailure", shape |-> "tuple", names |-> <<"0">>],
       [ctor |-> "CertsFailure", shape |-> "tuple", names |-> <<"0">>],
       [ctor |-> "GovFailure", shape |-> "tuple", names |-> <<"0">>],
       [ctor |-> "WdrlNotDelegatedToDRep", shape |-> "struct", names |-> <<"withdrawals">>],
       [ctor |-> "TreasuryValueMismatch", shape |-> "struct", names |-> <<"mismatch">>],
       [ctor |-> "TxRefScriptsSizeTooBig", shape |-> "struct", names |-> <<"size_mismatch">>],
       [ctor |-> "MempoolFailure", shape |-> "struct", names |-> <<"reason">>],
       [ctor |-> "WithdrawalsMissingAccounts", shape |-> "struct", names |-> <<"withdrawals">>],
       [ctor |-> "IncompleteWithdrawals", shape |-> "struct", names |-> <<"withdrawals">>],
       [ctor |-> "Other", shape |-> "tuple", names |-> <<"0">>] >>

\* enum ConwayUtxowPredicateFailure: its variants in declaration order, each with its shape and
\* the names of its fields (a tuple variant's fields are named by position).
ConwayUtxowPredicateFailure ==
    << [ctor |-> "UtxoFailure", shape |-> "tuple", names |-> <<"0">>],
       [ctor |-> "InvalidWitnessesUTXOW", shape |-> "struct", names |-> <<"witnesses">>],
       [ctor |-> "MissingVKeyWitnessesUTXOW", shape |-> "struct", names |-> <<"missing">>],
       [ctor |-> "MissingScriptWitnessesUTXOW", shape |-> "struct", names |-> <<"missing">>],
       [ctor |-> "ScriptWitnessNotValidatingUTXOW", shape |-> "struct", names |-> <<"failing">>],
       [ctor |-> "MissingTxBodyMetadataHash", shape |-> "struct", names |-> <<"expected">>],
       [ctor |-> "MissingTxMetadata", shape |-> "struct", names |-> <<"expected">>],
       [ctor |-> "ConflictingMetadataHash", shape |-> "struct", names |-> <<"mismatch">>],
       [ctor |-> "InvalidMetadata", shape |-> "unit", names |-> <<>>],
       [ctor |-> "ExtraneousScriptWitnessesUTXOW", shape |-> "struct", names |-> <<"extraneous">>],
       [ctor |-> "MissingRedeemers", shape |-> "struct", names |-> <<"missing">>],
       [ctor |-> "MissingRequiredDatums", shape |-> "struct", names |-> <<"missing_hashes", "provided_hashes">>],
       [ctor |-> "NotAllowedSupplementalDatums", shape |-> "struct", names |-> <<"disallowed_hashes", "allowed">>],
       [ctor |-> "PPViewHashesDontMatch", shape |-> "struct", names |-> <<"mismatch">>],
       [ctor |-> "UnspendableUTxONoDatumHash", shape |-> "struct", names |-> <<"inputs">>],
       [ctor |-> "ExtraRedeemers", shape |-> "struct", names |-> <<"extra">>],
       [ctor |-> "MalformedScriptWitnesses", shape |-> "struct", names |-> <<"scripts">>],
       [ctor |-> "MalformedReferenceScripts", shape |-> "struct", names |-> <<"scripts">>],
       [ctor |-> "ScriptIntegrityHashMismatch", shape |-> "struct", names |-> <<"mismatch", "provided">>],
       [ctor |-> "Other", shape |-> "tuple", names |-> <<"0">>] >>

\* enum ConwayUtxoPredicateFailure: its variants in declaration order, each with its shape and
\* the names of its fields (a tuple variant's fields are named by position).
ConwayUtxoPredicateFailure ==
    << [ctor |-> "UtxosFailure", shape |-> "tuple", names |-> <<"0">>],
       [ctor |-> "BadInputsUTxO", shape |-> "struct", names |-> <<"invalid_inputs">>],
       [ctor |-> "OutsideValidityIntervalUTxO", shape |-> "struct", names |-> <<"validity_interval", "current_slot">>],
       [ctor |-> "MaxTxSizeUTxO", shape |-> "struct", names |-> <<"size_mismatch">>],
       [ctor |-> "InputSetEmptyUTxO", shape |-> "unit", names |-> <<>>],
       [ctor |-> "FeeTooSmallUTxO", shape |-> "struct", names |-> <<"fee_mismatch">>],
       [ctor |-> "ValueNotConservedUTxO", shape |-> "struct", names |-> <<"balance_mismatch">>],
       [ctor |-> "WrongNetwork", shape |-> "struct", names |-> <<"expected", "offending">>],
       [ctor |-> "WrongNetworkWithdrawal", shape |-> "struct", names |-> <<"expected", "offending">>],
       [ctor |-> "OutputTooSmallUTxO", shape |-> "struct", names |-> <<"tiny_outputs">>],
       [ctor |-> "OutputBootAddrAttrsTooBig", shape |-> "struct", names |-> <<"oversized_bootstrap_outputs">>],
       [ctor |-> "OutputTooBigUTxO", shape |-> "struct", names |-> <<"outputs">>],
       [ctor |-> "InsufficientCollateral", shape |-> "struct", names |-> <<"provided", "required">>],
       [ctor |-> "ScriptsNotPaidUTxO", shape |-> "struct", names |-> <<"unpaid">>],
       [ctor |-> "ExUnitsTooBigUTxO", shape |-> "struct", names |-> <<"limit_mismatch">>],
       [ctor |-> "CollateralContainsNonADA", shape |-> "struct", names |-> <<"offending_value">>],
       [ctor |-> "WrongNetworkInTxBody", shape |-> "struct", names |-> <<"mismatch">>],
       [ctor |-> "OutsideForecast", shape |-> "struct", names |-> <<"slot">>],
       [ctor |-> "TooManyCollateralInputs", shape |-> "struct", names |-> <<"bound">>],
       [ctor |-> "NoCollateralInputs", shape |-> "unit", names |-> <<>>],
       [ctor |-> "IncorrectTotalCollateralField", shape |-> "struct", names |-> <<"provided", "declared">>],
       [ctor |-> "BabbageOutputTooSmallUTxO", shape |-> "struct", names |-> <<"outputs">>],
       [ctor |-> "BabbageNonDisjointRefInputs", shape |-> "struct", names |-> <<"overlapping">>],
       [ctor |-> "Other", shape |-> "tuple", names |-> <<"0">>] >>

\* enum ConwayUtxosPredicateFailure: its variants in declaration order, each with its shape and
\* the names of its fields (a tuple variant's fields are named by position).
ConwayUtxosPredicateFailure ==
    << [ctor |-> "ValidationTagMismatch", shape |-> "struct", names |-> <<"tag", "description">>],
       [ctor |-> "CollectErrors", shape |-> "struct", names |-> <<"errors">>],
       [ctor |-> "Other", shape |-> "tuple", names |-> <<"0">>] >>

\* enum ConwayCertsPredicateFailure: its variants in declaration order, each with its shape and
\* the names of its fields (a tuple variant's fields are named by position).
ConwayCertsPredicateFailure ==
    << [ctor |-> "WithdrawalsNotInRewardsCERTS", shape |-> "struct", names |-> <<"withdrawals">>],
       [ctor |-> "CertFailure", shape |-> "tuple", names |-> <<"0">>],
       [ctor |-> "Other", shape |-> "tuple", names |-> <<"0">>] >>

\* enum ConwayCertPredicateFailure: its variants in declaration order, each with its shape and
\* the names of its fields (a tuple variant's fields are named by position).
ConwayCertPredicateFailure ==
    << [ctor |-> "DelegFailure", shape |-> "tuple", names |-> <<"0">>],
       [ctor |-> "PoolFailure", shape |-> "struct", names |-> <<"failure">>],
       [ctor |-> "GovCertFailure", shape |-> "tuple", names |-> <<"0">>],
       [ctor |-> "Other", shape |-> "tuple", names |-> <<"0">>] >>

\* enum ConwayDelegPredicateFailure: its variants in declaration order, each with its shape and
\* the names of its fields (a tuple variant's fields are named by position).
ConwayDelegPredicateFailure ==
    << [ctor |-> "IncorrectDeposit", shape |-> "struct", names |-> <<"deposit">>],
       [ctor |-> "StakeKeyRegistered", shape |-> "struct", names |-> <<"stake_credential">>],
       [ctor |-> "StakeKeyNotRegistered", shape |-> "struct", names |-> <<"stake_credential">>],
       [ctor |-> "StakeKeyHasNonZeroRewardAccountBalance", shape |-> "struct", names |-> <<"balance">>],
       [ctor |-> "DelegateeDRepNotRegistered", shape |-> "struct", names |-> <<"delegatee">>],
       [ctor |-> "DelegateeStakePoolNotRegistered", shape |-> "struct", names |-> <<"delegatee">>],
       [ctor |-> "DepositIncorrect", shape |-> "struct", names |-> <<"mismatch">>],
       [ctor |-> "RefundIncorrect", shape |-> "struct", names |-> <<"mismatch">>],
       [ctor |-> "Other", shape |-> "tuple", names |-> <<"0">>] >>

\* enum ConwayGovCertPredicateFailure: its variants in declaration order, each with its shape and
\* the names of its fields (a tuple variant's fields are named by position).
ConwayGovCertPredicateFailure ==
    << [ctor |-> "ConwayDRepAlreadyRegistered", shape |-> "struct", names |-> <<"credential">>],
       [ctor |-> "ConwayDRepNotRegistered", shape |-> "struct", names |-> <<"credential">>],
       [ctor |-> "ConwayDRepIncorrectDeposit", shape |-> "struct", names |-> <<"mismatch">>],
       [ctor |-> "ConwayCommitteeHasPreviouslyResigned", shape |-> "struct", names |-> <<"cold_credential">>],
       [ctor |-> "ConwayDRepIncorrectRefund", shape |-> "struct", names |-> <<"mismatch">>],
       [ctor |-> "ConwayCommitteeIsUnknown", shape |-> "struct", names |-> <<"cold_credential">>],
       [ctor |-> "Other", shape |-> "tuple", names |-> <<"0">>] >>

\* enum ConwayGovPredicateFailure: its variants in declaration order, each with its shape and
\* the names of its fields (a tuple variant's fields are named by position).
ConwayGovPredicateFailure ==
    << [ctor |-> "GovActionsDoNotExist", shape |-> "struct", names |-> <<"missing">>],
       [ctor |-> "MalformedProposal", shape |-> "struct", names |-> <<"proposal">>],
       [ctor |-> "ProposalProcedureNetworkIdMismatch", shape |-> "struct", names |-> <<"reward_account", "expected_network">>],
       [ctor |-> "TreasuryWithdrawalsNetworkIdMismatch", shape |-> "struct", names |-> <<"offending_accounts", "expected_network">>],
       [ctor |-> "ProposalDepositIncorrect", shape |-> "struct", names |-> <<"mismatch">>],
       [ctor |-> "DisallowedVoters", shape |-> "struct", names |-> <<"voters">>],
       [ctor |-> "ConflictingCommitteeUpdate", shape |-> "struct", names |-> <<"members">>],
       [ctor |-> "ExpirationEpochTooSmall", shape |-> "struct", names |-> <<"expired">>],
       [ctor |-> "InvalidPrevGovActionId", shape |-> "struct", names |-> <<"proposal">>],
       [ctor |-> "VotingOnExpiredGovAction", shape |-> "struct", names |-> <<"votes">>],
       [ctor |-> "ProposalCantFollow", shape |-> "struct", names |-> <<"previous", "version_mismatch">>],
       [ctor |-> "InvalidPolicyHash", shape |-> "struct", names |-> <<"provided", "expected">>],
       [ctor |-> "DisallowedProposalDuringBootstrap", shape |-> "struct", names |-> <<"proposal">>],
       [ctor |-> "DisallowedVotesDuringBootstrap", shape |-> "struct", names |-> <<"votes">>],
       [ctor |-> "VotersDoNotExist", shape |-> "struct", names |-> <<"voters">>],
       [ctor |-> "ZeroTreasuryWithdrawals", shape |-> "struct", names |-> <<"action">>],
       [ctor |-> "ProposalReturnAccountDoesNotExist", shape |-> "struct", names |-> <<"reward_account">>],
       [ctor |-> "TreasuryWithdrawalReturnAccountsDoNotExist", shape |-> "struct", names |-> <<"reward_accounts">>],
       [ctor |-> "UnelectedCommitteeVoters", shape |-> "struct", names |-> <<"voters">>],
       [ctor |-> "Other", shape |-> "tuple", names |-> <<"0">>] >>

\* parse_conway_utxos_failure that decodes the payload of CollectErrors as a failure of
\* its own level, and so on downwards.
RECURSIVE parse_conway_utxos_failure_descending(_)
parse_conway_utxos_failure_descending(term) ==
    LET recognised == TaggedSum_from_term(term) IN
    IF ~recognised.some
    THEN Err(Malformed("utxos predicate failure must be a tagged sum"))
    ELSE
    LET sum == recognised.val
        looked == ConwayUtxosPredicateFailureTag_try_from(sum.tag)
    IN
    CASE looked.ok /\ looked.val = "ValidationTagMismatch" ->
          Try(expect_two_fields(sum.fields, "ValidationTagMismatch expects tag/description"), LAMBDA pair:
          Ok([enum |-> "ConwayUtxosPredicateFailure", ctor |-> "ValidationTagMismatch", fields |-> [tag |-> pair[1], description |-> pair[2]]]))
      [] looked.ok /\ looked.val = "CollectErrors" ->
          Try(expect_single_field(sum.fields, "CollectErrors expects payload"), LAMBDA child:
          Try(parse_conway_utxos_failure_descending(child), LAMBDA errors:
          Ok([enum |-> "ConwayUtxosPredicateFailure", ctor |-> "CollectErrors", fields |-> [errors |-> errors]])))
      [] OTHER -> Ok([enum |-> "ConwayUtxosPredicateFailure", ctor |-> "Other", fields |-> <<sum>>])

\* parse_conway_utxos_failure that turns a term that is no sum into Other.
parse_conway_utxos_failure_lenient(term) ==
    LET recognised == TaggedSum_from_term(term) IN
    IF ~recognised.some
    THEN Ok([enum |-> "ConwayUtxosPredicateFailure", ctor |-> "Other",
             fields |-> <<[tag |-> 0, fields |-> <<term>>]>>])
    ELSE
    LET sum == recognised.val
        looked == ConwayUtxosPredicateFailureTag_try_from(sum.tag)
    IN
    CASE looked.ok /\ looked.val = "ValidationTagMismatch" ->
          Try(expect_two_fields(sum.fields, "ValidationTagMismatch expects tag/description"), LAMBDA pair:
          Ok([enum |-> "ConwayUtxosPredicateFailure", ctor |-> "ValidationTagMismatch", fields |-> [tag |-> pair[1], description |-> pair[2]]]))
      [] looked.ok /\ looked.val = "CollectErrors" ->
          Try(expect_single_field(sum.fields, "CollectErrors expects payload"), LAMBDA errors:
          Ok([enum |-> "ConwayUtxosPredicateFailure", ctor |-> "CollectErrors", fields |-> [errors |-> errors]]))
      [] OTHER -> Ok([enum |-> "ConwayUtxosPredicateFailure", ctor |-> "Other", fields |-> <<sum>>])

\* fn parse_conway_utxos_failure: recognise the sum, look its tag up, then one arm per tag constructor.
parse_conway_utxos_failure(term) ==
    LET recognised == TaggedSum_from_term(term) IN
    IF ~recognised.some
    THEN Err(Malformed("utxos predicate failure must be a tagged sum"))
    ELSE
    LET sum == recognised.val
        looked == ConwayUtxosPredicateFailureTag_try_from(sum.tag)
    IN
    CASE looked.ok /\ looked.val = "ValidationTagMismatch" ->
          Try(expect_two_fields(sum.fields, "ValidationTagMismatch expects tag/description"), LAMBDA pair:
          Ok([enum |-> "ConwayUtxosPredicateFailure", ctor |-> "ValidationTagMismatch", fields |-> [tag |-> pair[1], description |-> pair[2]]]))
      [] looked.ok /\ looked.val = "CollectErrors" ->
          Try(expect_single_field(sum.fields, "CollectErrors expects payload"), LAMBDA errors:
          Ok([enum |-> "ConwayUtxosPredicateFailure", ctor |-> "CollectErrors", fields |-> [errors |-> errors]]))
      [] OTHER -> Ok([enum |-> "ConwayUtxosPredicateFailure", ctor |-> "Other", fields |-> <<sum>>])

\* fn parse_conway_utxo_failure: recognise the sum, look its tag up, then one arm per tag constructor.
parse_conway_utxo_failure(term) ==
    LET recognised == TaggedSum_from_term(term) IN
    IF ~recognised.some
    THEN Err(Malformed("utxo predicate failure must be a tagged sum"))
    ELSE
    LET sum == recognised.val
        looked == ConwayUtxoPredicateFailureTag_try_from(sum.tag)
    IN
    CASE looked.ok /\ looked.val = "UtxosFailure" ->
          Try(expect_single_field(sum.fields, "UtxosFailure expects a single payload"), LAMBDA child:
          Try(parse_conway_utxos_failure(child), LAMBDA utxos:
          Ok([enum |-> "ConwayUtxoPredicateFailure", ctor |-> "UtxosFailure", fields |-> <<utxos>>])))
      [] looked.ok /\ looked.val = "BadInputsUTxO" ->
          Try(expect_single_field(sum.fields, "BadInputsUTxO expects invalid inputs payload"), LAMBDA invalid_inputs:
          Ok([enum |-> "ConwayUtxoPredicateFailure", ctor |-> "BadInputsUTxO", fields |-> [invalid_inputs |-> invalid_inputs]]))
      [] looked.ok /\ looked.val = "OutsideValidityIntervalUTxO" ->
          Try(expect_two_fields(sum.fields, "OutsideValidityIntervalUTxO expects interval and slot"), LAMBDA pair:
          Ok([enum |-> "ConwayUtxoPredicateFailure", ctor |-> "OutsideValidityIntervalUTxO", fields |-> [validity_interval |-> pair[1], current_slot |-> pair[2]]]))
      [] looked.ok /\ looked.val = "MaxTxSizeUTxO" ->
          Try(expect_single_field(sum.fields, "MaxTxSizeUTxO expects mismatch payload"), LAMBDA size_mismatch:
          Ok([enum |-> "ConwayUtxoPredicateFailure", ctor |-> "MaxTxSizeUTxO", fields |-> [size_mismatch |-> size_mismatch]]))
      [] looked.ok /\ looked.val = "InputSetEmptyUTxO" ->
          Try(expect_no_fields(sum.fields, "InputSetEmptyUTxO carries no payload"), LAMBDA unit:
          Ok([enum |-> "ConwayUtxoPredicateFailure", ctor |-> "InputSetEmptyUTxO", fields |-> <<>>]))
      [] looked.ok /\ looked.val = "FeeTooSmallUTxO" ->
          Try(expect_single_field(sum.fields, "FeeTooSmallUTxO expects mismatch payload"), LAMBDA fee_mismatch:
          Ok([enum |-> "ConwayUtxoPredicateFailure", ctor |-> "FeeTooSmallUTxO", fields |-> [fee_mismatch |-> fee_mismatch]]))
      [] looked.ok /\ looked.val = "ValueNotConservedUTxO" ->
          Try(expect_single_field(sum.fields, "ValueNotConservedUTxO expects mismatch payload"), LAMBDA balance_mismatch:
          Ok([enum |-> "ConwayUtxoPredicateFailure", ctor |-> "ValueNotConservedUTxO", fields |-> [balance_mismatch |-> balance_mismatch]]))
      [] looked.ok /\ looked.val = "WrongNetwork" ->
          Try(expect_two_fields(sum.fields, "WrongNetwork expects expected/offending payloads"), LAMBDA pair:
          Ok([enum |-> "ConwayUtxoPredicateFailure", ctor |-> "WrongNetwork", fields |-> [expected |-> pair[1], offending |-> pair[2]]]))
      [] looked.ok /\ looked.val = "WrongNetworkWithdrawal" ->
          Try(expect_two_fields(sum.fields, "WrongNetworkWithdrawal expects expected/offending payloads"), LAMBDA pair:
          Ok([enum |-> "ConwayUtxoPredicateFailure", ctor |-> "WrongNetworkWithdrawal", fields |-> [expected |-> pair[1], offending |-> pair[2]]]))
      [] looked.ok /\ looked.val = "OutputTooSmallUTxO" ->
          Try(expect_single_field(sum.fields, "OutputTooSmallUTxO expects outputs payload"), LAMBDA tiny_outputs:
          Ok([enum |-> "ConwayUtxoPredicateFailure", ctor |-> "OutputTooSmallUTxO", fields |-> [tiny_outputs |-> tiny_outputs]]))
      [] looked.ok /\ looked.val = "OutputBootAddrAttrsTooBig" ->
          Try(expect_single_field(sum.fields, "OutputBootAddrAttrsTooBig expects outputs payload"), LAMBDA oversized_bootstrap_outputs:
          Ok([enum |-> "ConwayUtxoPredicateFailure", ctor |-> "OutputBootAddrAttrsTooBig", fields |-> [oversized_bootstrap_outputs |-> oversized_bootstrap_outputs]]))
      [] looked.ok /\ looked.val = "OutputTooBigUTxO" ->
          Try(expect_single_field(sum.fields, "OutputTooBigUTxO expects payload"), LAMBDA outputs:
          Ok([enum |-> "ConwayUtxoPredicateFailure", ctor |-> "OutputTooBigUTxO", fields |-> [outputs |-> outputs]]))
      [] looked.ok /\ looked.val = "InsufficientCollateral" ->
          Try(expect_two_fields(sum.fields, "InsufficientCollateral expects provided/required"), LAMBDA pair:
          Ok([enum |-> "ConwayUtxoPredicateFailure", ctor |-> "InsufficientCollateral", fields |-> [provided |-> pair[1], required |-> pair[2]]]))
      [] looked.ok /\ looked.val = "ScriptsNotPaidUTxO" ->
          Try(expect_single_field(sum.fields, "ScriptsNotPaidUTxO expects payload"), LAMBDA unpaid:
          Ok([enum |-> "ConwayUtxoPredicateFailure", ctor |-> "ScriptsNotPaidUTxO", fields |-> [unpaid |-> unpaid]]))
      [] looked.ok /\ looked.val = "ExUnitsTooBigUTxO" ->
          Try(expect_single_field(sum.fields, "ExUnitsTooBigUTxO expects mismatch payload"), LAMBDA limit_mismatch:
          Ok([enum |-> "ConwayUtxoPredicateFailure", ctor |-> "ExUnitsTooBigUTxO", fields |-> [limit_mismatch |-> limit_mismatch]]))
      [] looked.ok /\ looked.val = "CollateralContainsNonADA" ->
          Try(expect_single_field(sum.fields, "CollateralContainsNonADA expects payload"), LAMBDA offending_value:
          Ok([enum |-> "ConwayUtxoPredicateFailure", ctor |-> "CollateralContainsNonADA", fields |-> [offending_value |-> offending_value]]))
      [] looked.ok /\ looked.val = "WrongNetworkInTxBody" ->
          Try(expect_single_field(sum.fields, "WrongNetworkInTxBody expects mismatch payload"), LAMBDA mismatch:
          Ok([enum |-> "ConwayUtxoPredicateFailure", ctor |-> "WrongNetworkInTxBody", fields |-> [mismatch |-> mismatch]]))
      [] looked.ok /\ looked.val = "OutsideForecast" ->
          Try(expect_single_field(sum.fields, "OutsideForecast expects slot payload"), LAMBDA slot:
          Ok([enum |-> "ConwayUtxoPredicateFailure", ctor |-> "OutsideForecast", fields |-> [slot |-> slot]]))
      [] looked.ok /\ looked.val = "TooManyCollateralInputs" ->
          Try(expect_single_field(sum.fields, "TooManyCollateralInputs expects bound payload"), LAMBDA bound:
          Ok([enum |-> "ConwayUtxoPredicateFailure", ctor |-> "TooManyCollateralInputs", fields |-> [bound |-> bound]]))
      [] looked.ok /\ looked.val = "NoCollateralInputs" ->
          Try(expect_no_fields(sum.fields, "NoCollateralInputs carries no payload"), LAMBDA unit:
          Ok([enum |-> "ConwayUtxoPredicateFailure", ctor |-> "NoCollateralInputs", fields |-> <<>>]))
      [] looked.ok /\ looked.val = "IncorrectTotalCollateralField" ->
          Try(expect_two_fields(sum.fields, "IncorrectTotalCollateralField expects provided/declared"), LAMBDA pair:
          Ok([enum |-> "ConwayUtxoPredicateFailure", ctor |-> "IncorrectTotalCollateralField", fields |-> [provided |-> pair[1], declared |-> pair[2]]]))
      [] looked.ok /\ looked.val = "BabbageOutputTooSmallUTxO" ->
          Try(expect_single_field(sum.fields, "BabbageOutputTooSmallUTxO expects payload"), LAMBDA outputs:
          Ok([enum |-> "ConwayUtxoPredicateFailure", ctor |-> "BabbageOutputTooSmallUTxO", fields |-> [outputs |-> outputs]]))
      [] looked.ok /\ looked.val = "BabbageNonDisjointRefInputs" ->
          Try(expect_single_field(sum.fields, "BabbageNonDisjointRefInputs expects payload"), LAMBDA overlapping:
          Ok([enum |-> "ConwayUtxoPredicateFailure", ctor |-> "BabbageNonDisjointRefInputs", fields |-> [overlapping |-> overlapping]]))
      [] OTHER -> Ok([enum |-> "ConwayUtxoPredicateFailure", ctor |-> "Other", fields |-> <<sum>>])

\* fn parse_conway_utxow_failure: recognise the sum, look its tag up, then one arm per tag constructor.
parse_conway_utxow_failure(term) ==
    LET recognised == TaggedSum_from_term(term) IN
    IF ~recognised.some
    THEN Err(Malformed("utxow predicate failure must be a tagged sum"))
    ELSE
    LET sum == recognised.val
        looked == ConwayUtxowPredicateFailureTag_try_from(sum.tag)
    IN
    CASE looked.ok /\ looked.val = "UtxoFailure" ->
          Try(expect_single_field(sum.fields, "UtxoFailure expects a single payload"), LAMBDA child:
          Try(parse_conway_utxo_failure(child), LAMBDA utxo:
          Ok([enum |-> "ConwayUtxowPredicateFailure", ctor |-> "UtxoFailure", fields |-> <<utxo>>])))
      [] looked.ok /\ looked.val = "InvalidWitnessesUTXOW" ->
          Try(expect_single_field(sum.fields, "InvalidWitnessesUTXOW expects witness payload"), LAMBDA witnesses:
          Ok([enum |-> "ConwayUtxowPredicateFailure", ctor |-> "InvalidWitnessesUTXOW", fields |-> [witnesses |-> witnesses]]))
      [] looked.ok /\ looked.val = "MissingVKeyWitnessesUTXOW" ->
          Try(expect_single_field(sum.fields, "MissingVKeyWitnessesUTXOW expects missing payload"), LAMBDA missing:
          Ok([enum |-> "ConwayUtxowPredicateFailure", ctor |-> "MissingVKeyWitnessesUTXOW", fields |-> [missing |-> missing]]))
      [] looked.ok /\ looked.val = "MissingScriptWitnessesUTXOW" ->
          Try(expect_single_field(sum.fields, "MissingScriptWitnessesUTXOW expects missing payload"), LAMBDA missing:
          Ok([enum |-> "ConwayUtxowPredicateFailure", ctor |-> "MissingScriptWitnessesUTXOW", fields |-> [missing |-> missing]]))
      [] looked.ok /\ looked.val = "ScriptWitnessNotValidatingUTXOW" ->
          Try(expect_single_field(sum.fields, "ScriptWitnessNotValidatingUTXOW expects failing payload"), LAMBDA failing:
          Ok([enum |-> "ConwayUtxowPredicateFailure", ctor |-> "ScriptWitnessNotValidatingUTXOW", fields |-> [failing |-> failing]]))
      [] looked.ok /\ looked.val = "MissingTxBodyMetadataHash" ->
          Try(expect_single_field(sum.fields, "MissingTxBodyMetadataHash expects expected hash"), LAMBDA expected:
          Ok([enum |-> "ConwayUtxowPredicateFailure", ctor |-> "MissingTxBodyMetadataHash", fields |-> [expected |-> expected]]))
      [] looked.ok /\ looked.val = "MissingTxMetadata" ->
          Try(expect_single_field(sum.fields, "MissingTxMetadata expects expected hash"), LAMBDA expected:
          Ok([enum |-> "ConwayUtxowPredicateFailure", ctor |-> "MissingTxMetadata", fields |-> [expected |-> expected]]))
      [] looked.ok /\ looked.val = "ConflictingMetadataHash" ->
          Try(expect_single_field(sum.fields, "ConflictingMetadataHash expects mismatch payload"), LAMBDA mismatch:
          Ok([enum |-> "ConwayUtxowPredicateFailure", ctor |-> "ConflictingMetadataHash", fields |-> [mismatch |-> mismatch]]))
      [] looked.ok /\ looked.val = "InvalidMetadata" ->
          Try(expect_no_fields(sum.fields, "InvalidMetadata carries no payload"), LAMBDA unit:
          Ok([enum |-> "ConwayUtxowPredicateFailure", ctor |-> "InvalidMetadata", fields |-> <<>>]))
      [] looked.ok /\ looked.val = "ExtraneousScriptWitnessesUTXOW" ->
          Try(expect_single_field(sum.fields, "ExtraneousScriptWitnessesUTXOW expects payload"), LAMBDA extraneous:
          Ok([enum |-> "ConwayUtxowPredicateFailure", ctor |-> "ExtraneousScriptWitnessesUTXOW", fields |-> [extraneous |-> extraneous]]))
      [] looked.ok /\ looked.val = "MissingRedeemers" ->
          Try(expect_single_field(sum.fields, "MissingRedeemers expects payload"), LAMBDA missing:
          Ok([enum |-> "ConwayUtxowPredicateFailure", ctor |-> "MissingRedeemers", fields |-> [missing |-> missing]]))
      [] looked.ok /\ looked.val = "MissingRequiredDatums" ->
          Try(expect_two_fields(sum.fields, "MissingRequiredDatums expects two payloads"), LAMBDA pair:
          Ok([enum |-> "ConwayUtxowPredicateFailure", ctor |-> "MissingRequiredDatums", fields |-> [missing_hashes |-> pair[1], provided_hashes |-> pair[2]]]))
      [] looked.ok /\ looked.val = "NotAllowedSupplementalDatums" ->
          Try(expect_two_fields(sum.fields, "NotAllowedSupplementalDatums expects two payloads"), LAMBDA pair:
          Ok([enum |-> "ConwayUtxowPredicateFailure", ctor |-> "NotAllowedSupplementalDatums", fields |-> [disallowed_hashes |-> pair[1], allowed |-> pair[2]]]))
      [] looked.ok /\ looked.val = "PPViewHashesDontMatch" ->
          Try(expect_single_field(sum.fields, "PPViewHashesDontMatch expects mismatch payload"), LAMBDA mismatch:
          Ok([enum |-> "ConwayUtxowPredicateFailure", ctor |-> "PPViewHashesDontMatch", fields |-> [mismatch |-> mismatch]]))
      [] looked.ok /\ looked.val = "UnspendableUTxONoDatumHash" ->
          Try(expect_single_field(sum.fields, "UnspendableUTxONoDatumHash expects input set"), LAMBDA inputs:
          Ok([enum |-> "ConwayUtxowPredicateFailure", ctor |-> "UnspendableUTxONoDatumHash", fields |-> [inputs |-> inputs]]))
      [] looked.ok /\ looked.val = "ExtraRedeemers" ->
          Try(expect_single_field(sum.fields, "ExtraRedeemers expects payload"), LAMBDA extra:
          Ok([enum |-> "ConwayUtxowPredicateFailure", ctor |-> "ExtraRedeemers", fields |-> [extra |-> extra]]))
      [] looked.ok /\ looked.val = "MalformedScriptWitnesses" ->
          Try(expect_single_field(sum.fields, "MalformedScriptWitnesses expects payload"), LAMBDA scripts:
          Ok([enum |-> "ConwayUtxowPredicateFailure", ctor |-> "MalformedScriptWitnesses", fields |-> [scripts |-> scripts]]))
      [] looked.ok /\ looked.val = "MalformedReferenceScripts" ->
          Try(expect_single_field(sum.fields, "MalformedReferenceScripts expects payload"), LAMBDA scripts:
          Ok([enum |-> "ConwayUtxowPredicateFailure", ctor |-> "MalformedReferenceScripts", fields |-> [scripts |-> scripts]]))
      [] looked.ok /\ looked.val = "ScriptIntegrityHashMismatch" ->
          Try(expect_two_fields(sum.fields, "ScriptIntegrityHashMismatch expects two payloads"), LAMBDA pair:
          Ok([enum |-> "ConwayUtxowPredicateFailure", ctor |-> "ScriptIntegrityHashMismatch", fields |-> [mismatch |-> pair[1], provided |-> pair[2]]]))
      [] OTHER -> Ok([enum |-> "ConwayUtxowPredicateFailure", ctor |-> "Other", fields |-> <<sum>>])

\* fn parse_conway_gov_cert_failure: recognise the sum, look its tag up, then one arm per tag constructor.
parse_conway_gov_cert_failure(term) ==
    LET recognised == TaggedSum_from_term(term) IN
    IF ~recognised.some
    THEN Err(Malformed("gov cert predicate failure must be a tagged sum"))
    ELSE
    LET sum == recognised.val
        looked == ConwayGovCertPredicateFailureTag_try_from(sum.tag)
    IN
    CASE looked.ok /\ looked.val = "ConwayDRepAlreadyRegistered" ->
          Try(expect_single_field(sum.fields, "ConwayDRepAlreadyRegistered expects credential"), LAMBDA credential:
          Ok([enum |-> "ConwayGovCertPredicateFailure", ctor |-> "ConwayDRepAlreadyRegistered", fields |-> [credential |-> credential]]))
      [] looked.ok /\ looked.val = "ConwayDRepNotRegistered" ->
          Try(expect_single_field(sum.fields, "ConwayDRepNotRegistered expects credential"), LAMBDA credential:
          Ok([enum |-> "ConwayGovCertPredicateFailure", ctor |-> "ConwayDRepNotRegistered", fields |-> [credential |-> credential]]))
      [] looked.ok /\ looked.val = "ConwayDRepIncorrectDeposit" ->
          Try(expect_single_field(sum.fields, "ConwayDRepIncorrectDeposit expects mismatch"), LAMBDA mismatch:
          Ok([enum |-> "ConwayGovCertPredicateFailure", ctor |-> "ConwayDRepIncorrectDeposit", fields |-> [mismatch |-> mismatch]]))
      [] looked.ok /\ looked.val = "ConwayCommitteeHasPreviouslyResigned" ->
          Try(expect_single_field(sum.fields, "ConwayCommitteeHasPreviouslyResigned expects credential"), LAMBDA cold_credential:
          Ok([enum |-> "ConwayGovCertPredicateFailure", ctor |-> "ConwayCommitteeHasPreviouslyResigned", fields |-> [cold_credential |-> cold_credential]]))
      [] looked.ok /\ looked.val = "ConwayDRepIncorrectRefund" ->
          Try(expect_single_field(sum.fields, "ConwayDRepIncorrectRefund expects mismatch"), LAMBDA mismatch:
          Ok([enum |-> "ConwayGovCertPredicateFailure", ctor |-> "ConwayDRepIncorrectRefund", fields |-> [mismatch |-> mismatch]]))
      [] looked.ok /\ looked.val = "ConwayCommitteeIsUnknown" ->
          Try(expect_single_field(sum.fields, "ConwayCommitteeIsUnknown expects credential"), LAMBDA cold_credential:
          Ok([enum |-> "ConwayGovCertPredicateFailure", ctor |-> "ConwayCommitteeIsUnknown", fields |-> [cold_credential |-> cold_credential]]))
      [] OTHER -> Ok([enum |-> "ConwayGovCertPredicateFailure", ctor |-> "Other", fields |-> <<sum>>])

\* fn parse_conway_deleg_failure: recognise the sum, look its tag up, then one arm per tag constructor.
parse_conway_deleg_failure(term) ==
    LET recognised == TaggedSum_from_term(term) IN
    IF ~recognised.some
    THEN Err(Malformed("deleg predicate failure must be a tagged sum"))
    ELSE
    LET sum == recognised.val
        looked == ConwayDelegPredicateFailureTag_try_from(sum.tag)
    IN
    CASE looked.ok /\ looked.val = "IncorrectDepositDELEG" ->
          Try(expect_single_field(sum.fields, "IncorrectDeposit expects a deposit payload"), LAMBDA deposit:
          Ok([enum |-> "ConwayDelegPredicateFailure", ctor |-> "IncorrectDeposit", fields |-> [deposit |-> deposit]]))
      [] looked.ok /\ looked.val = "StakeKeyRegisteredDELEG" ->
          Try(expect_single_field(sum.fields, "StakeKeyRegistered expects a credential payload"), LAMBDA stake_credential:
          Ok([enum |-> "ConwayDelegPredicateFailure", ctor |-> "StakeKeyRegistered", fields |-> [stake_credential |-> stake_credential]]))
      [] looked.ok /\ looked.val = "StakeKeyNotRegisteredDELEG" ->
          Try(expect_single_field(sum.fields, "StakeKeyNotRegistered expects a credential payload"), LAMBDA stake_credential:
          Ok([enum |-> "ConwayDelegPredicateFailure", ctor |-> "StakeKeyNotRegistered", fields |-> [stake_credential |-> stake_credential]]))
      [] looked.ok /\ looked.val = "StakeKeyHasNonZeroRewardAccountBalanceDELEG" ->
          Try(expect_single_field(sum.fields, "StakeKeyHasNonZeroRewardAccountBalance expects a balance"), LAMBDA balance:
          Ok([enum |-> "ConwayDelegPredicateFailure", ctor |-> "StakeKeyHasNonZeroRewardAccountBalance", fields |-> [balance |-> balance]]))
      [] looked.ok /\ looked.val = "DelegateeDRepNotRegisteredDELEG" ->
          Try(expect_single_field(sum.fields, "DelegateeDRepNotRegistered expects a credential"), LAMBDA delegatee:
          Ok([enum |-> "ConwayDelegPredicateFailure", ctor |-> "DelegateeDRepNotRegistered", fields |-> [delegatee |-> delegatee]]))
      [] looked.ok /\ looked.val = "DelegateeStakePoolNotRegisteredDELEG" ->
          Try(expect_single_field(sum.fields, "DelegateeStakePoolNotRegistered expects one argument"), LAMBDA delegatee_term:
          Try(extract_bytes(delegatee_term), LAMBDA delegatee:
          Ok([enum |-> "ConwayDelegPredicateFailure", ctor |-> "DelegateeStakePoolNotRegistered", fields |-> [delegatee |-> delegatee]])))
      [] looked.ok /\ looked.val = "DepositIncorrectDELEG" ->
          Try(expect_single_field(sum.fields, "DepositIncorrect expects mismatch payload"), LAMBDA mismatch:
          Ok([enum |-> "ConwayDelegPredicateFailure", ctor |-> "DepositIncorrect", fields |-> [mismatch |-> mismatch]]))
      [] looked.ok /\ looked.val = "RefundIncorrectDELEG" ->
          Try(expect_single_field(sum.fields, "RefundIncorrect expects mismatch payload"), LAMBDA mismatch:
          Ok([enum |-> "ConwayDelegPredicateFailure", ctor |-> "RefundIncorrect", fields |-> [mismatch |-> mismatch]]))
      [] OTHER -> Ok([enum |-> "ConwayDelegPredicateFailure", ctor |-> "Other", fields |-> <<sum>>])

\* parse_conway_cert_failure that decodes the payload of PoolFailure as a failure of
\* the deleg level.
parse_conway_cert_failure_nested_pool(term) ==
    LET recognised == TaggedSum_from_term(term) IN
    IF ~recognised.some
    THEN Err(Malformed("certificate predicate failure must be a tagged sum"))
    ELSE
    LET sum == recognised.val
        looked == ConwayCertPredicateFailureTag_try_from(sum.tag)
    IN
    CASE looked.ok /\ looked.val = "DelegFailure" ->
          Try(expect_single_field(sum.fields, "DelegFailure expects a single payload"), LAMBDA child:
          Try(parse_conway_deleg_failure(child), LAMBDA deleg:
          Ok([enum |-> "ConwayCertPredicateFailure", ctor |-> "DelegFailure", fields |-> <<deleg>>])))
      [] looked.ok /\ looked.val = "PoolFailure" ->
          Try(expect_single_field(sum.fields, "PoolFailure expects a single payload"), LAMBDA child:
          Try(parse_conway_deleg_failure(child), LAMBDA failure:
          Ok([enum |-> "ConwayCertPredicateFailure", ctor |-> "PoolFailure", fields |-> [failure |-> failure]])))
      [] looked.ok /\ looked.val = "GovCertFailure" ->
          Try(expect_single_field(sum.fields, "GovCertFailure expects a single payload"), LAMBDA child:
          Try(parse_conway_gov_cert_failure(child), LAMBDA gov:
          Ok([enum |-> "ConwayCertPredicateFailure", ctor |-> "GovCertFailure", fields |-> <<gov>>])))
      [] OTHER -> Ok([enum |-> "ConwayCertPredicateFailure", ctor |-> "Other", fields |-> <<sum>>])

\* fn parse_conway_cert_failure: recognise the sum, look its tag up, then one arm per tag constructor.
parse_conway_cert_failure(term) ==
    LET recognised == TaggedSum_from_term(term) IN
    IF ~recognised.some
    THEN Err(Malformed("certificate predicate failure must be a tagged sum"))
    ELSE
    LET sum == recognised.val
        looked == ConwayCertPredicateFailureTag_try_from(sum.tag)
    IN
    CASE looked.ok /\ looked.val = "DelegFailure" ->
          Try(expect_single_field(sum.fields, "DelegFailure expects a single payload"), LAMBDA child:
          Try(parse_conway_deleg_failure(child), LAMBDA deleg:
          Ok([enum |-> "ConwayCertPredicateFailure", ctor |-> "DelegFailure", fields |-> <<deleg>>])))
      [] looked.ok /\ looked.val = "PoolFailure" ->
          Try(expect_single_field(sum.fields, "PoolFailure expects a single payload"), LAMBDA failure:
          Ok([enum |-> "ConwayCertPredicateFailure", ctor |-> "PoolFailure", fields |-> [failure |-> failure]]))
      [] looked.ok /\ looked.val = "GovCertFailure" ->
          Try(expect_single_field(sum.fields, "GovCertFailure expects a single payload"), LAMBDA child:
          Try(parse_conway_gov_cert_failure(child), LAMBDA gov:
          Ok([enum |-> "ConwayCertPredicateFailure", ctor |-> "GovCertFailure", fields |-> <<gov>>])))
      [] OTHER -> Ok([enum |-> "ConwayCertPredicateFailure", ctor |-> "Other", fields |-> <<sum>>])

\* fn parse_conway_certs_failure: recognise the sum, look its tag up, then one arm per tag constructor.
parse_conway_certs_failure(term) ==
    LET recognised == TaggedSum_from_term(term) IN
    IF ~recognised.some
    THEN Err(Malformed("certs predicate failure must be a tagged sum"))
    ELSE
    LET sum == recognised.val
        looked == ConwayCertsPredicateFailureTag_try_from(sum.tag)
    IN
    CASE looked.ok /\ looked.val = "WithdrawalsNotInRewardsCERTS" ->
          Try(expect_single_field(sum.fields, "WithdrawalsNotInRewardsCERTS expects withdrawals payload"), LAMBDA withdrawals:
          Ok([enum |-> "ConwayCertsPredicateFailure", ctor |-> "WithdrawalsNotInRewardsCERTS", fields |-> [withdrawals |-> withdrawals]]))
      [] looked.ok /\ looked.val = "CertFailure" ->
          Try(expect_single_field(sum.fields, "CertFailure expects a single payload"), LAMBDA child:
          Try(parse_conway_cert_failure(child), LAMBDA cert:
          Ok([enum |-> "ConwayCertsPredicateFailure", ctor |-> "CertFailure", fields |-> <<cert>>])))
      [] OTHER -> Ok([enum |-> "ConwayCertsPredicateFailure", ctor |-> "Other", fields |-> <<sum>>])

\* fn parse_conway_gov_failure: recognise the sum, look its tag up, then one arm per tag constructor.
parse_conway_gov_failure(term) ==
    LET recognised == TaggedSum_from_term(term) IN
    IF ~recognised.some
    THEN Err(Malformed("gov predicate failure must be a tagged sum"))
    ELSE
    LET sum == recognised.val
        looked == ConwayGovPredicateFailureTag_try_from(sum.tag)
    IN
    CASE looked.ok /\ looked.val = "GovActionsDoNotExist" ->
          Try(expect_single_field(sum.fields, "GovActionsDoNotExist expects missing payload"), LAMBDA missing:
          Ok([enum |-> "ConwayGovPredicateFailure", ctor |-> "GovActionsDoNotExist", fields |-> [missing |-> missing]]))
      [] looked.ok /\ looked.val = "MalformedProposal" ->
          Try(expect_single_field(sum.fields, "MalformedProposal expects proposal payload"), LAMBDA proposal:
          Ok([enum |-> "ConwayGovPredicateFailure", ctor |-> "MalformedProposal", fields |-> [proposal |-> proposal]]))
      [] looked.ok /\ looked.val = "ProposalProcedureNetworkIdMismatch" ->
          Try(expect_two_fields(sum.fields, "ProposalProcedureNetworkIdMismatch expects two payloads"), LAMBDA pair:
          Ok([enum |-> "ConwayGovPredicateFailure", ctor |-> "ProposalProcedureNetworkIdMismatch", fields |-> [reward_account |-> pair[1], expected_network |-> pair[2]]]))
      [] looked.ok /\ looked.val = "TreasuryWithdrawalsNetworkIdMismatch" ->
          Try(expect_two_fields(sum.fields, "TreasuryWithdrawalsNetworkIdMismatch expects two payloads"), LAMBDA pair:
          Ok([enum |-> "ConwayGovPredicateFailure", ctor |-> "TreasuryWithdrawalsNetworkIdMismatch", fields |-> [offending_accounts |-> pair[1], expected_network |-> pair[2]]]))
      [] looked.ok /\ looked.val = "ProposalDepositIncorrect" ->
          Try(expect_single_field(sum.fields, "ProposalDepositIncorrect expects mismatch payload"), LAMBDA mismatch:
          Ok([enum |-> "ConwayGovPredicateFailure", ctor |-> "ProposalDepositIncorrect", fields |-> [mismatch |-> mismatch]]))
      [] looked.ok /\ looked.val = "DisallowedVoters" ->
          Try(expect_single_field(sum.fields, "DisallowedVoters expects payload"), LAMBDA voters:
          Ok([enum |-> "ConwayGovPredicateFailure", ctor |-> "DisallowedVoters", fields |-> [voters |-> voters]]))
      [] looked.ok /\ looked.val = "ConflictingCommitteeUpdate" ->
          Try(expect_single_field(sum.fields, "ConflictingCommitteeUpdate expects payload"), LAMBDA members:
          Ok([enum |-> "ConwayGovPredicateFailure", ctor |-> "ConflictingCommitteeUpdate", fields |-> [members |-> members]]))
      [] looked.ok /\ looked.val = "ExpirationEpochTooSmall" ->
          Try(expect_single_field(sum.fields, "ExpirationEpochTooSmall expects payload"), LAMBDA expired:
          Ok([enum |-> "ConwayGovPredicateFailure", ctor |-> "ExpirationEpochTooSmall", fields |-> [expired |-> expired]]))
      [] looked.ok /\ looked.val = "InvalidPrevGovActionId" ->
          Try(expect_single_field(sum.fields, "InvalidPrevGovActionId expects proposal payload"), LAMBDA proposal:
          Ok([enum |-> "ConwayGovPredicateFailure", ctor |-> "InvalidPrevGovActionId", fields |-> [proposal |-> proposal]]))
      [] looked.ok /\ looked.val = "VotingOnExpiredGovAction" ->
          Try(expect_single_field(sum.fields, "VotingOnExpiredGovAction expects payload"), LAMBDA votes:
          Ok([enum |-> "ConwayGovPredicateFailure", ctor |-> "VotingOnExpiredGovAction", fields |-> [votes |-> votes]]))
      [] looked.ok /\ looked.val = "ProposalCantFollow" ->
          Try(expect_two_fields(sum.fields, "ProposalCantFollow expects two payloads"), LAMBDA pair:
          Ok([enum |-> "ConwayGovPredicateFailure", ctor |-> "ProposalCantFollow", fields |-> [previous |-> pair[1], version_mismatch |-> pair[2]]]))
      [] looked.ok /\ looked.val = "InvalidPolicyHash" ->
          Try(expect_two_fields(sum.fields, "InvalidPolicyHash expects two payloads"), LAMBDA pair:
          Ok([enum |-> "ConwayGovPredicateFailure", ctor |-> "InvalidPolicyHash", fields |-> [provided |-> pair[1], expected |-> pair[2]]]))
      [] looked.ok /\ looked.val = "DisallowedProposalDuringBootstrap" ->
          Try(expect_single_field(sum.fields, "DisallowedProposalDuringBootstrap expects proposal"), LAMBDA proposal:
          Ok([enum |-> "ConwayGovPredicateFailure", ctor |-> "DisallowedProposalDuringBootstrap", fields |-> [proposal |-> proposal]]))
      [] looked.ok /\ looked.val = "DisallowedVotesDuringBootstrap" ->
          Try(expect_single_field(sum.fields, "DisallowedVotesDuringBootstrap expects votes"), LAMBDA votes:
          Ok([enum |-> "ConwayGovPredicateFailure", ctor |-> "DisallowedVotesDuringBootstrap", fields |-> [votes |-> votes]]))
      [] looked.ok /\ looked.val = "VotersDoNotExist" ->
          Try(expect_single_field(sum.fields, "VotersDoNotExist expects payload"), LAMBDA voters:
          Ok([enum |-> "ConwayGovPredicateFailure", ctor |-> "VotersDoNotExist", fields |-> [voters |-> voters]]))
      [] looked.ok /\ looked.val = "ZeroTreasuryWithdrawals" ->
          Try(expect_single_field(sum.fields, "ZeroTreasuryWithdrawals expects action"), LAMBDA action:
          Ok([enum |-> "ConwayGovPredicateFailure", ctor |-> "ZeroTreasuryWithdrawals", fields |-> [action |-> action]]))
      [] looked.ok /\ looked.val = "ProposalReturnAccountDoesNotExist" ->
          Try(expect_single_field(sum.fields, "ProposalReturnAccountDoesNotExist expects reward account"), LAMBDA reward_account:
          Ok([enum |-> "ConwayGovPredicateFailure", ctor |-> "ProposalReturnAccountDoesNotExist", fields |-> [reward_account |-> reward_account]]))
      [] looked.ok /\ looked.val = "TreasuryWithdrawalReturnAccountsDoNotExist" ->
          Try(expect_single_field(sum.fields, "TreasuryWithdrawalReturnAccountsDoNotExist expects accounts"), LAMBDA reward_accounts:
          Ok([enum |-> "ConwayGovPredicateFailure", ctor |-> "TreasuryWithdrawalReturnAccountsDoNotExist", fields |-> [reward_accounts |-> reward_accounts]]))
      [] looked.ok /\ looked.val = "UnelectedCommitteeVoters" ->
          Try(expect_single_field(sum.fields, "UnelectedCommitteeVoters expects payload"), LAMBDA voters:
          Ok([enum |-> "ConwayGovPredicateFailure", ctor |-> "UnelectedCommitteeVoters", fields |-> [voters |-> voters]]))
      [] OTHER -> Ok([enum |-> "ConwayGovPredicateFailure", ctor |-> "Other", fields |-> <<sum>>])

\* fn parse_conway_ledger_failure: recognise the sum, look its tag up, then one arm per tag constructor.
parse_conway_ledger_failure(term) ==
    LET recognised == TaggedSum_from_term(term) IN
    IF ~recognised.some
    THEN Err(Malformed("ledger predicate failure node must be a tagged sum"))
    ELSE
    LET sum == recognised.val
        looked == ConwayLedgerPredicateFailureTag_try_from(sum.tag)
    IN
    CASE looked.ok /\ looked.val = "ConwayUtxowFailure" ->
          Try(expect_single_field(sum.fields, "ConwayUtxowFailure expects a single payload"), LAMBDA field:
          Try(parse_conway_utxow_failure(field), LAMBDA utxow:
          Ok([enum |-> "ConwayLedgerPredicateFailure", ctor |-> "UtxowFailure", fields |-> <<utxow>>])))
      [] looked.ok /\ looked.val = "ConwayCertsFailure" ->
          Try(expect_single_field(sum.fields, "ConwayCertsFailure expects a single payload"), LAMBDA child:
          Try(parse_conway_certs_failure(child), LAMBDA certs:
          Ok([enum |-> "ConwayLedgerPredicateFailure", ctor |-> "CertsFailure", fields |-> <<certs>>])))
      [] looked.ok /\ looked.val = "ConwayGovFailure" ->
          Try(expect_single_field(sum.fields, "ConwayGovFailure expects a single payload"), LAMBDA child:
          Try(parse_conway_gov_failure(child), LAMBDA gov:
          Ok([enum |-> "ConwayLedgerPredicateFailure", ctor |-> "GovFailure", fields |-> <<gov>>])))
      [] looked.ok /\ looked.val = "ConwayWdrlNotDelegatedToDRep" ->
          Try(expect_single_field(sum.fields, "ConwayWdrlNotDelegatedToDRep expects withdrawals"), LAMBDA withdrawals:
          Ok([enum |-> "ConwayLedgerPredicateFailure", ctor |-> "WdrlNotDelegatedToDRep", fields |-> [withdrawals |-> withdrawals]]))
      [] looked.ok /\ looked.val = "ConwayTreasuryValueMismatch" ->
          Try(expect_single_field(sum.fields, "ConwayTreasuryValueMismatch expects mismatch payload"), LAMBDA mismatch:
          Ok([enum |-> "ConwayLedgerPredicateFailure", ctor |-> "TreasuryValueMismatch", fields |-> [mismatch |-> mismatch]]))
      [] looked.ok /\ looked.val = "ConwayTxRefScriptsSizeTooBig" ->
          Try(expect_single_field(sum.fields, "ConwayTxRefScriptsSizeTooBig expects mismatch payload"), LAMBDA size_mismatch:
          Ok([enum |-> "ConwayLedgerPredicateFailure", ctor |-> "TxRefScriptsSizeTooBig", fields |-> [size_mismatch |-> size_mismatch]]))
      [] looked.ok /\ looked.val = "ConwayMempoolFailure" ->
          Try(expect_single_field(sum.fields, "ConwayMempoolFailure expects reason payload"), LAMBDA reason:
          Ok([enum |-> "ConwayLedgerPredicateFailure", ctor |-> "MempoolFailure", fields |-> [reason |-> reason]]))
      [] looked.ok /\ looked.val = "ConwayWithdrawalsMissingAccounts" ->
          Try(expect_single_field(sum.fields, "ConwayWithdrawalsMissingAccounts expects withdrawals"), LAMBDA withdrawals:
          Ok([enum |-> "ConwayLedgerPredicateFailure", ctor |-> "WithdrawalsMissingAccounts", fields |-> [withdrawals |-> withdrawals]]))
      [] looked.ok /\ looked.val = "ConwayIncompleteWithdrawals" ->
          Try(expect_single_field(sum.fields, "ConwayIncompleteWithdrawals expects withdrawals"), LAMBDA withdrawals:
          Ok([enum |-> "ConwayLedgerPredicateFailure", ctor |-> "IncompleteWithdrawals", fields |-> [withdrawals |-> withdrawals]]))
      [] OTHER -> Ok([enum |-> "ConwayLedgerPredicateFailure", ctor |-> "Other", fields |-> <<sum>>])

--------------------------------------------------------------------------
\* The envelope check that only asks for a second element.
envelope_body_at_least_two(term) ==
    IF term.k = "Array" /\ Len(term.items) >= 2
    THEN Ok(Head(Tail(term.items)))
    ELSE Err(Malformed("expected [tag, body] predicate failure message"))

\* The envelope check that asks for an unsigned integer as first element.
envelope_body_tagged(term) ==
    IF term.k = "Array" /\ Len(term.items) = 2 /\ Term_as_unsigned(Head(term.items)).some
    THEN Ok(Head(Tail(term.items)))
    ELSE Err(Malformed("expected [tag, body] predicate failure message"))

\* decode_conway_ledger_failures, the envelope: a two-element array, whose second
\* element is the body.
envelope_body(term) ==
    IF term.k = "Array" /\ Len(term.items) = 2
    THEN Ok(Head(Tail(term.items)))
    ELSE Err(Malformed("expected [tag, body] predicate failure message"))

\* decode_conway_ledger_failures, the body: an array of failures.
body_failures(body) ==
    IF body.k = "Array"
    THEN Ok(body.items)
    ELSE Err(Malformed("predicate failure body must be an array"))

\* The collection with filter_map in place of map: an element that fails is left out.
RECURSIVE collect_failures_skipping(_, _)
collect_failures_skipping(failures, collected) ==
    IF Len(failures) = 0 THEN Ok(collected)
    ELSE LET item == parse_conway_ledger_failure(Head(failures)) IN
         collect_failures_skipping(Tail(failures),
                                   IF item.ok THEN Append(collected, item.val) ELSE collected)

\* The collection that decodes every element and keeps the error it met last.
RECURSIVE collect_failures_last_error(_, _)
collect_failures_last_error(failures, collected) ==
    IF Len(failures) = 0 THEN Ok(collected)
    ELSE LET item == parse_conway_ledger_failure(Head(failures))
             rest == collect_failures_last_error(Tail(failures), <<>>)
         IN  IF ~rest.ok THEN rest
             ELSE IF ~item.ok THEN item
             ELSE Ok(collected \o <<item.val>> \o rest.val)

\* The collection that puts each failure in front of those decoded before it.
RECURSIVE collect_failures_reversed(_, _)
collect_failures_reversed(failures, collected) ==
    IF Len(failures) = 0 THEN Ok(collected)
    ELSE Try(parse_conway_ledger_failure(Head(failures)), LAMBDA item:
         collect_failures_reversed(Tail(failures), <<item>> \o collected))

\* failures.into_iter().map(parse_conway_ledger_failure).collect(): the elements are
\* decoded from the left; the first Err ends the iteration and is the result.
RECURSIVE collect_failures(_, _)
collect_failures(failures, collected) ==
    IF Len(failures) = 0 THEN Ok(collected)
    ELSE Try(parse_conway_ledger_failure(Head(failures)), LAMBDA item:
         collect_failures(Tail(failures), Append(collected, item)))

\* fn decode_conway_ledger_failures.
decode_conway_ledger_failures(reader) ==
    Try(de_from_reader(reader), LAMBDA value:
    Try(envelope_body(Term_from_value(value)), LAMBDA body:
    Try(body_failures(body), LAMBDA failures:
    collect_failures(failures, <<>>))))

--------------------------------------------------------------------------
\* Bounds of the input families.
MaxTag == 23

MaxFields == 3

MaxBody == 3

MaxBytesLen == 2

MaxLayers == 2

\* Constructors of ciborium's Value.
VInteger(neg, hi, lo) == [k |-> "Integer", int |-> [neg |-> neg, hi |-> hi, lo |-> lo]]

VInt(n) == VInteger(FALSE, 0, n)

VBytes(b) == [k |-> "Bytes", bytes |-> b]

VText(s) == [k |-> "Text", text |-> s]

VBool(b) == [k |-> "Bool", bool |-> b]

VFloat(x) == [k |-> "Float", float |-> x]

VNull == [k |-> "Null"]

VArray(xs) == [k |-> "Array", items |-> xs]

VMap(ps) == [k |-> "Map", entries |-> ps]

VTag(t, x) == [k |-> "Tag", tag |-> t, inner |-> x]

SeqsUpTo(S, n) == UNION {[1..m -> S] : m \in 0..n}

\* The two wire forms of a constructor application.
Forms == {"array", "tag"}

SumValue(form, tag, fields) ==
    IF form = "array" THEN VArray(<<VInt(tag)>> \o fields) ELSE VTag(tag, VArray(fields))

\* Byte strings (key hashes, shortened).
ByteValues == {28, 218}

ByteStrings == SeqsUpTo(ByteValues, MaxBytesLen)

\* Values that are no array and no semantic tag.  -1 and 2^64 + 5 are the integers
\* outside u64.
Scalars ==
    { VInt(0), VInt(5), VInteger(TRUE, 0, 1), VInteger(FALSE, 1, 5),
      VBytes(<<218>>), VText("payload"), VBool(TRUE), VFloat("1.5"), VNull,
      VMap(<<>>), VMap(<< <<VInt(1), VArray(<<VInt(2), VInt(0)>>)>> >>) }

\* Generic values: scalars, arrays of up to MaxFields items, and both under a
\* semantic tag.  [5, [1], "payload"] is one of them.
Items ==
    { VInt(5), VInteger(TRUE, 0, 1), VInteger(FALSE, 1, 5), VText("payload"),
      VArray(<<VInt(1)>>) }

PlainValues == Scalars \cup {VArray(s) : s \in SeqsUpTo(Items, MaxFields)}

GenericValues == PlainValues \cup {VTag(t, x) : t \in {5}, x \in PlainValues}

\* Sums for the level decoders: every tag 0..MaxTag in both forms, with 0..MaxFields
\* fields.  The first field is a payload that may be a child sum, a byte string or
\* plain data; field i > 1 is the integer i, so that fields are told apart.
FieldPayloads ==
    { VBytes(<<218>>), VInt(0), VMap(<<>>),
      VArray(<<VInt(1), VInt(0)>>), VArray(<<VInt(0), VInt(0)>>),
      VTag(258, VArray(<<VBytes(<<218>>)>>)) }

FieldSeqs ==
    {<<>>} \cup
    { <<p>> \o [i \in 1..(n - 1) |-> VInt(i + 1)] : p \in FieldPayloads, n \in 1..MaxFields }

\* Arrays led by an integer outside u64: -1, -5, 2^64 and 2^64 + 5.
OutOfRangeLed ==
    { VArray(<<v, VInt(0)>>) :
        v \in { VInteger(TRUE, 0, 1), VInteger(TRUE, 0, 5), VInteger(FALSE, 1, 0),
                VInteger(FALSE, 1, 5) } }

LevelValues ==
    {SumValue(f, t, fs) : f \in Forms, t \in 0..MaxTag, fs \in FieldSeqs} \cup Scalars
      \cup {VArray(<<>>), VTag(1, VInt(0)), VArray(<<VText("payload"), VInt(0)>>)}
      \cup OutOfRangeLed
      \cup {VArray(<<VInt(t), v>>) : t \in {0, 1}, v \in OutOfRangeLed}

\* A byte string, or something that is none, under up to n wrappers, each a
\* one-element array or a semantic tag.
RECURSIVE Wrapped(_)
Wrapped(n) ==
    IF n = 0
    THEN {VBytes(b) : b \in ByteStrings}
           \cup {VInt(0), VArray(<<>>), VArray(<<VBytes(<<218>>), VBytes(<<28>>)>>), VMap(<<>>)}
    ELSE LET inner == Wrapped(n - 1) IN
         inner \cup {VArray(<<w>>) : w \in inner}
               \cup {VTag(t, w) : t \in {24, 258}, w \in inner}

WrappedValues == Wrapped(MaxLayers)

\* Chain(<<t1, .., tn>>, x) is [t1, [t2, .. [tn, x]]].
RECURSIVE Chain(_, _)
Chain(tags, x) ==
    IF Len(tags) = 0 THEN x ELSE VArray(<<VInt(Head(tags)), Chain(Tail(tags), x)>>)

\* The message of the test parse_conway_delegatee_stake_pool_not_registered:
\* 82 02 81 82 06 81 82 01 82 02 d9 0102 81 58 1c <hash>.
TestMessage(h) ==
    VArray(<<VInt(2),
             VArray(<<VArray(<<VInt(6),
                               VArray(<<VArray(<<VInt(1),
                                                  VArray(<<VInt(2),
                                                           VTag(258, VArray(<<VBytes(h)>>))>>)>>)>>)>>)>>)>>)

\* [2, [2, [1, [6, [h]]]]].
ScenarioMessage(h) == Chain(<<2, 2, 1, 6>>, VArray(<<VBytes(h)>>))

\* [2, [[2, [1, [1, [6, [h]]]]]]]: an envelope around one failure with the tag path
\* ledger 2, certs 1, cert 1, deleg 6.
EnvelopedScenarioMessage(h) ==
    VArray(<<VInt(2), VArray(<<Chain(<<2, 1, 1, 6>>, VArray(<<VBytes(h)>>))>>)>>)

\* Body elements: decodable ones, and ones that fail at different places.
GoodElements ==
    { Chain(<<2, 1, 1, 6>>, VArray(<<VBytes(<<218>>)>>)),
      Chain(<<0>>, VInt(0)),
      VTag(3, VArray(<<Chain(<<1>>, VInt(0))>>)) }

BadElements ==
    { VInt(2),
      Chain(<<1>>, VInt(0)),
      VArray(<<VInt(1), VInt(0), VInt(0)>>),
      Chain(<<1, 0, 4>>, VInt(0)) }

Elements == GoodElements \cup BadElements

\* Messages whose envelope is not [tag, body] with an array as body, around a failure
\* that decodes.
BadEnvelopes ==
    UNION { { VArray(<<VArray(<<g>>)>>),
              VArray(<<VInt(2), VArray(<<g>>), VInt(0)>>),
              VArray(<<VInt(2), VArray(<<g>>), VArray(<<g>>)>>),
              VTag(2, VArray(<<VInt(2), VArray(<<g>>)>>)),
              VArray(<<VInt(2), VTag(2, VArray(<<g>>))>>),
              VArray(<<VInt(2), VMap(<< <<VInt(0), g>> >>)>>),
              VArray(<<VArray(<<g>>), VInt(2)>>) } : g \in GoodElements }

\* Failures that go on below the last level of the taxonomy: at the utxos level
\* (under CollectErrors), at the gov-cert level, at the deleg and gov levels (under
\* an unknown tag), and at the ledger level itself.
DeepElements ==
    { Chain(<<1, 0, 0, 1>>, Chain(<<1, 0, 0, 1>>, VInt(0))),
      Chain(<<2, 1, 3, 0>>, Chain(<<2, 1, 3, 0>>, VInt(0))),
      Chain(<<2, 1, 1, 0>>, Chain(<<2, 1, 1, 6>>, VArray(<<VBytes(<<218>>)>>))),
      Chain(<<3, 19>>, Chain(<<1, 0, 0, 1>>, VInt(0))),
      Chain(<<9>>, Chain(<<1, 0, 0, 1>>, Chain(<<1, 0, 0, 1>>, VInt(0)))) }

Messages ==
    {VArray(<<c, VArray(b)>>) : c \in {VInt(2), VText("ctx")}, b \in SeqsUpTo(Elements, MaxBody)}
      \cup {TestMessage(h) : h \in ByteStrings}
      \cup {ScenarioMessage(h) : h \in ByteStrings}
      \cup {EnvelopedScenarioMessage(h) : h \in ByteStrings}
      \cup {VArray(<<VInt(2), VArray(<<Chain(<<2, 1, 1, 6>>, w)>>)>>) : w \in WrappedValues}
      \cup BadEnvelopes
      \cup {VArray(<<VInt(2), VArray(<<d>>)>>) : d \in DeepElements}

\* The outcome of de::from_reader on the caller's bytes.
Readers(values) == {Ok(v) : v \in values} \cup {Err([variant |-> "de::Error"])}

Levels ==
    { "ledger", "utxow", "utxo", "utxos", "certs", "cert", "deleg", "gov_cert", "gov" }

LevelOp(level) == "parse_conway_" \o level \o "_failure"

TryFromOp(level) ==
    CASE level = "ledger" -> "ConwayLedgerPredicateFailureTag_try_from"
      [] level = "utxow" -> "ConwayUtxowPredicateFailureTag_try_from"
      [] level = "utxo" -> "ConwayUtxoPredicateFailureTag_try_from"
      [] level = "utxos" -> "ConwayUtxosPredicateFailureTag_try_from"
      [] level = "certs" -> "ConwayCertsPredicateFailureTag_try_from"
      [] level = "cert" -> "ConwayCertPredicateFailureTag_try_from"
      [] level = "deleg" -> "ConwayDelegPredicateFailureTag_try_from"
      [] level = "gov_cert" -> "ConwayGovCertPredicateFailureTag_try_from"
      [] level = "gov" -> "ConwayGovPredicateFailureTag_try_from"

\* Arguments of try_from: every tag up to MaxTag, and larger ones.
U64Values == 0..MaxTag \cup {255, 65536, 2147483647}

\* Arguments of the arity helpers: the fields of a sum, the expected number of fields
\* and the context of the caller.
HelperFields == {[i \in 1..Len(fs) |-> Term_from_value(fs[i])] : fs \in FieldSeqs}

Contexts == {"MissingRequiredDatums expects two payloads", "InputSetEmptyUTxO carries no payload"}

\* The calls a caller makes: <<function, input>>.
Calls ==
    {<<"decode_conway_ledger_failures", r>> : r \in Readers(Messages \cup GenericValues)}
      \cup {<<"decode_predicate_failure", r>> : r \in Readers(Messages \cup GenericValues)}
      \cup {<<"TaggedSum_from_term", Term_from_value(v)>> : v \in GenericValues \cup LevelValues}
      \cup {<<"TaggedTree_from_term", Term_from_value(v)>> : v \in GenericValues}
      \cup {<<"extract_bytes", Term_from_value(v)>> : v \in WrappedValues}
      \cup {<<LevelOp(l), Term_from_value(v)>> : l \in Levels, v \in LevelValues}
      \cup {<<"parse_conway_ledger_failure", Term_from_value(d)>> : d \in DeepElements}
      \cup {<<"parse_conway_utxos_failure", Term_from_value(SumValue(f, 1, <<d>>))>> :
              f \in Forms, d \in DeepElements}
      \cup {<<"parse_conway_deleg_failure", Term_from_value(SumValue(f, 6, <<w>>))>> :
              f \in Forms, w \in WrappedValues}
      \cup {<<TryFromOp(l), t>> : l \in Levels, t \in U64Values}
      \cup {<<"expect_fields", [fields |-> fs, expected |-> n, context |-> c]>> :
              fs \in HelperFields, n \in 0..MaxFields, c \in Contexts}
      \cup {<<f, [fields |-> fs, context |-> c]>> :
              f \in {"expect_single_field", "expect_two_fields", "expect_no_fields"},
              fs \in HelperFields, c \in Contexts}

Pending == [pending |-> TRUE]

Init ==
    /\ pc = "ready"
    /\ res = Pending
    /\ history = <<>>
    /\ threads = <<>>
    /\ frames = <<>>
    /\ \E c \in Calls : op = c[1] /\ arg = c[2]

Return(result) ==
    /\ res' = result
    /\ pc' = "done"
    /\ history' = Append(history, [op |-> op, arg |-> arg, res |-> result])
    /\ UNCHANGED <<op, arg, threads, frames>>

\* decode_conway_ledger_failures with an error slot that outlives the call: once a
\* call has failed, every later call returns that error.
CallDecodeConwayLedgerFailures_sticky_error ==
    /\ pc = "ready" /\ op = "decode_conway_ledger_failures"
    /\ IF \E i \in 1..Len(history) : ~history[i].res.ok
       THEN Return(history[CHOOSE i \in 1..Len(history) : ~history[i].res.ok].res)
       ELSE Return(decode_conway_ledger_failures(arg))

CallDecodePredicateFailure ==
    /\ pc = "ready" /\ op = "decode_predicate_failure"
    /\ Return(decode_predicate_failure(arg))

CallDecodeConwayLedgerFailures ==
    /\ pc = "ready" /\ op = "decode_conway_ledger_failures"
    /\ Return(decode_conway_ledger_failures(arg))

CallTaggedSumFromTerm ==
    /\ pc = "ready" /\ op = "TaggedSum_from_term"
    /\ Return(TaggedSum_from_term(arg))

CallTaggedTreeFromTerm ==
    /\ pc = "ready" /\ op = "TaggedTree_from_term"
    /\ Return(TaggedTree_from_term(arg))

CallExtractBytes ==
    /\ pc = "ready" /\ op = "extract_bytes"
    /\ Return(extract_bytes(arg))

CallParseConwayLedgerFailure ==
    /\ pc = "ready" /\ op = "parse_conway_ledger_failure"
    /\ Return(parse_conway_ledger_failure(arg))

CallParseConwayUtxowFailure ==
    /\ pc = "ready" /\ op = "parse_conway_utxow_failure"
    /\ Return(parse_conway_utxow_failure(arg))

CallParseConwayUtxoFailure ==
    /\ pc = "ready" /\ op = "parse_conway_utxo_failure"
    /\ Return(parse_conway_utxo_failure(arg))

CallParseConwayUtxosFailure ==
    /\ pc = "ready" /\ op = "parse_conway_utxos_failure"
    /\ Return(parse_conway_utxos_failure(arg))

CallParseConwayCertsFailure ==
    /\ pc = "ready" /\ op = "parse_conway_certs_failure"
    /\ Return(parse_conway_certs_failure(arg))

CallParseConwayCertFailure ==
    /\ pc = "ready" /\ op = "parse_conway_cert_failure"
    /\ Return(parse_conway_cert_failure(arg))

CallParseConwayDelegFailure ==
    /\ pc = "ready" /\ op = "parse_conway_deleg_failure"
    /\ Return(parse_conway_deleg_failure(arg))

CallParseConwayGovCertFailure ==
    /\ pc = "ready" /\ op = "parse_conway_gov_cert_failure"
    /\ Return(parse_conway_gov_cert_failure(arg))

CallParseConwayGovFailure ==
    /\ pc = "ready" /\ op = "parse_conway_gov_failure"
    /\ Return(parse_conway_gov_failure(arg))

CallLedgerTagTryFrom ==
    /\ pc = "ready" /\ op = "ConwayLedgerPredicateFailureTag_try_from"
    /\ Return(ConwayLedgerPredicateFailureTag_try_from(arg))

CallUtxowTagTryFrom ==
    /\ pc = "ready" /\ op = "ConwayUtxowPredicateFailureTag_try_from"
    /\ Return(ConwayUtxowPredicateFailureTag_try_from(arg))

CallUtxoTagTryFrom ==
    /\ pc = "ready" /\ op = "ConwayUtxoPredicateFailureTag_try_from"
    /\ Return(ConwayUtxoPredicateFailureTag_try_from(arg))

CallUtxosTagTryFrom ==
    /\ pc = "ready" /\ op = "ConwayUtxosPredicateFailureTag_try_from"
    /\ Return(ConwayUtxosPredicateFailureTag_try_from(arg))

CallCertsTagTryFrom ==
    /\ pc = "ready" /\ op = "ConwayCertsPredicateFailureTag_try_from"
    /\ Return(ConwayCertsPredicateFailureTag_try_from(arg))

CallCertTagTryFrom ==
    /\ pc = "ready" /\ op = "ConwayCertPredicateFailureTag_try_from"
    /\ Return(ConwayCertPredicateFailureTag_try_from(arg))

CallDelegTagTryFrom ==
    /\ pc = "ready" /\ op = "ConwayDelegPredicateFailureTag_try_from"
    /\ Return(ConwayDelegPredicateFailureTag_try_from(arg))

CallGovCertTagTryFrom ==
    /\ pc = "ready" /\ op = "ConwayGovCertPredicateFailureTag_try_from"
    /\ Return(ConwayGovCertPredicateFailureTag_try_from(arg))

CallGovTagTryFrom ==
    /\ pc = "ready" /\ op = "ConwayGovPredicateFailureTag_try_from"
    /\ Return(ConwayGovPredicateFailureTag_try_from(arg))

CallExpectFields ==
    /\ pc = "ready" /\ op = "expect_fields"
    /\ Return(expect_fields(arg.fields, arg.expected, arg.context))

CallExpectSingleField ==
    /\ pc = "ready" /\ op = "expect_single_field"
    /\ Return(expect_single_field(arg.fields, arg.context))

CallExpectTwoFields ==
    /\ pc = "ready" /\ op = "expect_two_fields"
    /\ Return(expect_two_fields(arg.fields, arg.context))

CallExpectNoFields ==
    /\ pc = "ready" /\ op = "expect_no_fields"
    /\ Return(expect_no_fields(arg.fields, arg.context))

Next ==
    \/ CallDecodePredicateFailure
    \/ CallDecodeConwayLedgerFailures
    \/ CallTaggedSumFromTerm
    \/ CallTaggedTreeFromTerm
    \/ CallExtractBytes
    \/ CallParseConwayLedgerFailure
    \/ CallParseConwayUtxowFailure
    \/ CallParseConwayUtxoFailure
    \/ CallParseConwayUtxosFailure
    \/ CallParseConwayCertsFailure
    \/ CallParseConwayCertFailure
    \/ CallParseConwayDelegFailure
    \/ CallParseConwayGovCertFailure
    \/ CallParseConwayGovFailure
    \/ CallLedgerTagTryFrom
    \/ CallUtxowTagTryFrom
    \/ CallUtxoTagTryFrom
    \/ CallUtxosTagTryFrom
    \/ CallCertsTagTryFrom
    \/ CallCertTagTryFrom
    \/ CallDelegTagTryFrom
    \/ CallGovCertTagTryFrom
    \/ CallGovTagTryFrom
    \/ CallExpectFields
    \/ CallExpectSingleField
    \/ CallExpectTwoFields
    \/ CallExpectNoFields

Spec == Init /\ [][Next]_vars

--------------------------------------------------------------------------
\* A caller that calls the two entry points again and again, on the same input or on
\* another, up to MaxCalls calls.
MaxCalls == 3

RepeatMessages ==
    { VArray(<<VInt(5), VArray(<<VInt(1)>>), VText("payload")>>),
      EnvelopedScenarioMessage(<<218>>),
      VArray(<<VInt(2), VArray(<<VInt(2)>>)>>),
      VInt(5) }

RepeatCalls ==
    {<<f, r>> : f \in {"decode_predicate_failure", "decode_conway_ledger_failures"},
                r \in Readers(RepeatMessages)}

InitRepeat ==
    /\ pc = "ready"
    /\ res = Pending
    /\ history = <<>>
    /\ threads = <<>>
    /\ frames = <<>>
    /\ \E c \in RepeatCalls : op = c[1] /\ arg = c[2]

CallAgain ==
    /\ pc = "done"
    /\ Len(history) < MaxCalls
    /\ \E c \in RepeatCalls : op' = c[1] /\ arg' = c[2]
    /\ pc' = "ready"
    /\ res' = Pending
    /\ UNCHANGED <<history, threads, frames>>

NextRepeat ==
    \/ CallDecodePredicateFailure
    \/ CallDecodeConwayLedgerFailures
    \/ CallAgain

SpecRepeat == InitRepeat /\ [][NextRepeat]_vars

--------------------------------------------------------------------------
\* What the claims say, stated over the wire shape of the input and over the
\* declarations of the enums, not over the decoder.

Done(f) == pc = "done" /\ op = f

\* The term is a constructor application: [tag, field, ..] with tag in u64, or a
\* semantic tag around an array.
IsWireSum(term) ==
    \/ /\ term.k = "Array"
       /\ Len(term.items) >= 1
       /\ term.items[1].k = "Integer"
       /\ ~term.items[1].int.neg
       /\ term.items[1].int.hi = 0
    \/ /\ term.k = "Tagged"
       /\ term.inner.k = "Array"

WireTag(term) == IF term.k = "Array" THEN term.items[1].int.lo ELSE term.tag

WireFields(term) == IF term.k = "Array" THEN Tail(term.items) ELSE term.inner.items

\* The path of constructors of a typed failure, outermost first: a tuple variant's
\* single field is the nested failure.
RECURSIVE CtorPath(_)
CtorPath(failure) ==
    IF failure.ctor \in {"UtxowFailure", "CertsFailure", "GovFailure", "UtxoFailure",
                         "UtxosFailure", "CertFailure", "DelegFailure", "GovCertFailure"}
    THEN <<failure.ctor>> \o CtorPath(failure.fields[1])
    ELSE <<failure.ctor>>

RECURSIVE Innermost(_)
Innermost(failure) ==
    IF failure.ctor \in {"UtxowFailure", "CertsFailure", "GovFailure", "UtxoFailure",
                         "UtxosFailure", "CertFailure", "DelegFailure", "GovCertFailure"}
    THEN Innermost(failure.fields[1])
    ELSE failure

\* The result is Ok with exactly one failure, which is
\* CertsFailure(CertFailure(DelegFailure(DelegateeStakePoolNotRegistered{delegatee = h}))).
IsDelegateeNotRegistered(result, h) ==
    /\ result.ok
    /\ Len(result.val) = 1
    /\ CtorPath(result.val[1]) =
         <<"CertsFailure", "CertFailure", "DelegFailure", "DelegateeStakePoolNotRegistered">>
    /\ Innermost(result.val[1]).fields.delegatee = h

\* C1: for every byte string h, decode_conway_ledger_failures on the message of the
\* test parse_conway_delegatee_stake_pool_not_registered, [2, [[6, [[1, [2,
\* 258([h])]]]]]], gives exactly one failure, and it is
\* CertsFailure(CertFailure(DelegFailure(DelegateeStakePoolNotRegistered{delegatee = h}))).
C1_TestMessageIsDelegateeNotRegistered ==
    \A h \in ByteStrings :
        (Done("decode_conway_ledger_failures") /\ arg = Ok(TestMessage(h)))
            => IsDelegateeNotRegistered(res, h)

\* C2, as stated: for every byte string h, decode_conway_ledger_failures on
\* [2, [2, [1, [6, [h]]]]] succeeds with
\* CertsFailure(CertFailure(DelegFailure(DelegateeStakePoolNotRegistered{delegatee = h}))).
C2_ScenarioAsStated ==
    \A h \in ByteStrings :
        (Done("decode_conway_ledger_failures") /\ arg = Ok(ScenarioMessage(h)))
            => IsDelegateeNotRegistered(res, h)

\* C2, amended: for every byte string h, decode_conway_ledger_failures on the
\* enveloped message [2, [[2, [1, [1, [6, [h]]]]]]] (a body of one failure with the
\* tag path ledger 2, certs 1, cert 1, deleg 6) succeeds with exactly one failure,
\* CertsFailure(CertFailure(DelegFailure(DelegateeStakePoolNotRegistered{delegatee = h}))).
C2_EnvelopedScenario ==
    \A h \in ByteStrings :
        (Done("decode_conway_ledger_failures") /\ arg = Ok(EnvelopedScenarioMessage(h)))
            => IsDelegateeNotRegistered(res, h)

C2_Witness ==
    /\ Done("decode_conway_ledger_failures")
    /\ arg = Ok(EnvelopedScenarioMessage(<<218, 28>>))
    /\ res.ok
    /\ Innermost(res.val[1]).fields.delegatee = <<218, 28>>

--------------------------------------------------------------------------
\* The levels, as their declarations give them.

TagEnum(level) ==
    CASE level = "ledger" -> ConwayLedgerPredicateFailureTag
      [] level = "utxow" -> ConwayUtxowPredicateFailureTag
      [] level = "utxo" -> ConwayUtxoPredicateFailureTag
      [] level = "utxos" -> ConwayUtxosPredicateFailureTag
      [] level = "certs" -> ConwayCertsPredicateFailureTag
      [] level = "cert" -> ConwayCertPredicateFailureTag
      [] level = "deleg" -> ConwayDelegPredicateFailureTag
      [] level = "gov_cert" -> ConwayGovCertPredicateFailureTag
      [] level = "gov" -> ConwayGovPredicateFailureTag

FailureEnum(level) ==
    CASE level = "ledger" -> ConwayLedgerPredicateFailure
      [] level = "utxow" -> ConwayUtxowPredicateFailure
      [] level = "utxo" -> ConwayUtxoPredicateFailure
      [] level = "utxos" -> ConwayUtxosPredicateFailure
      [] level = "certs" -> ConwayCertsPredicateFailure
      [] level = "cert" -> ConwayCertPredicateFailure
      [] level = "deleg" -> ConwayDelegPredicateFailure
      [] level = "gov_cert" -> ConwayGovCertPredicateFailure
      [] level = "gov" -> ConwayGovPredicateFailure

FailureEnumName(level) ==
    CASE level = "ledger" -> "ConwayLedgerPredicateFailure"
      [] level = "utxow" -> "ConwayUtxowPredicateFailure"
      [] level = "utxo" -> "ConwayUtxoPredicateFailure"
      [] level = "utxos" -> "ConwayUtxosPredicateFailure"
      [] level = "certs" -> "ConwayCertsPredicateFailure"
      [] level = "cert" -> "ConwayCertPredicateFailure"
      [] level = "deleg" -> "ConwayDelegPredicateFailure"
      [] level = "gov_cert" -> "ConwayGovCertPredicateFailure"
      [] level = "gov" -> "ConwayGovPredicateFailure"

ParseAt(level, term) ==
    CASE level = "ledger" -> parse_conway_ledger_failure(term)
      [] level = "utxow" -> parse_conway_utxow_failure(term)
      [] level = "utxo" -> parse_conway_utxo_failure(term)
      [] level = "utxos" -> parse_conway_utxos_failure(term)
      [] level = "certs" -> parse_conway_certs_failure(term)
      [] level = "cert" -> parse_conway_cert_failure(term)
      [] level = "deleg" -> parse_conway_deleg_failure(term)
      [] level = "gov_cert" -> parse_conway_gov_cert_failure(term)
      [] level = "gov" -> parse_conway_gov_failure(term)

\* The catalogue of a level: the discriminants of its tag enum.
CatalogueTags(level) == {TagEnum(level)[name] : name \in DOMAIN TagEnum(level)}

FirstTag(level) ==
    CHOOSE t \in CatalogueTags(level) : \A u \in CatalogueTags(level) : t <= u

\* The variant of a catalogue tag: the tag enum and the failure enum declare their
\* constructors in the same order.
DeclaredVariant(level, tag) == FailureEnum(level)[tag - FirstTag(level) + 1]

DeclaredArity(level, tag) == Len(DeclaredVariant(level, tag).names)

\* A taxonomy with a cycle: the field of utxos tag 1 taken as a ledger failure.
ChildLevel_cyclic(level, tag) ==
    CASE level = "ledger" /\ tag = 1 -> "utxow"
      [] level = "ledger" /\ tag = 2 -> "certs"
      [] level = "ledger" /\ tag = 3 -> "gov"
      [] level = "utxow" /\ tag = 0 -> "utxo"
      [] level = "utxo" /\ tag = 0 -> "utxos"
      [] level = "certs" /\ tag = 1 -> "cert"
      [] level = "cert" /\ tag = 1 -> "deleg"
      [] level = "cert" /\ tag = 3 -> "gov_cert"
      [] level = "utxos" /\ tag = 1 -> "ledger"
      [] OTHER -> "none"

\* The level of the single field of a recursive constructor, "none" for the others.
ChildLevel(level, tag) ==
    CASE level = "ledger" /\ tag = 1 -> "utxow"
      [] level = "ledger" /\ tag = 2 -> "certs"
      [] level = "ledger" /\ tag = 3 -> "gov"
      [] level = "utxow" /\ tag = 0 -> "utxo"
      [] level = "utxo" /\ tag = 0 -> "utxos"
      [] level = "certs" /\ tag = 1 -> "cert"
      [] level = "cert" /\ tag = 1 -> "deleg"
      [] level = "cert" /\ tag = 3 -> "gov_cert"
      [] OTHER -> "none"

\* The message of the arity check of a recursive constructor.
SinglePayloadMessage(level, tag) ==
    CASE level = "ledger" /\ tag = 1 -> "ConwayUtxowFailure expects a single payload"
      [] level = "ledger" /\ tag = 2 -> "ConwayCertsFailure expects a single payload"
      [] level = "ledger" /\ tag = 3 -> "ConwayGovFailure expects a single payload"
      [] level = "utxow" /\ tag = 0 -> "UtxoFailure expects a single payload"
      [] level = "utxo" /\ tag = 0 -> "UtxosFailure expects a single payload"
      [] level = "certs" /\ tag = 1 -> "CertFailure expects a single payload"
      [] level = "cert" /\ tag = 1 -> "DelegFailure expects a single payload"
      [] level = "cert" /\ tag = 3 -> "GovCertFailure expects a single payload"

\* A sum the level has to accept: an unknown tag with anything, or a catalogue tag
\* with the declared number of fields, a well-formed child under a recursive
\* constructor and a byte string under deleg tag 6.
RECURSIVE WellFormed(_, _)
WellFormed(level, term) ==
    /\ IsWireSum(term)
    /\ \/ WireTag(term) \notin CatalogueTags(level)
       \/ /\ Len(WireFields(term)) = DeclaredArity(level, WireTag(term))
          /\ ChildLevel(level, WireTag(term)) # "none"
                => WellFormed(ChildLevel(level, WireTag(term)), WireFields(term)[1])
          /\ (level = "deleg" /\ WireTag(term) = 6) => WireFields(term)[1].k = "Bytes"

IsMalformed(result) == ~result.ok /\ result.err.variant = "Malformed"

IsOther(result, level, term) ==
    /\ result.ok
    /\ result.val.enum = FailureEnumName(level)
    /\ result.val.ctor = "Other"
    /\ result.val.fields = <<[tag |-> WireTag(term), fields |-> WireFields(term)]>>

\* C3: at each of the nine levels, a sum whose tag is not in the level's catalogue,
\* with any fields, decodes to the level's Other variant, which carries the tag and
\* the fields as they came; it is never an error.  The same holds for such a sum in
\* the child position of a recursive constructor.
C3_UnknownTagIsOther ==
    \A level \in Levels :
        (Done(LevelOp(level)) /\ IsWireSum(arg)) =>
            /\ WireTag(arg) \notin CatalogueTags(level) => IsOther(res, level, arg)
            /\ ( /\ WireTag(arg) \in CatalogueTags(level)
                 /\ ChildLevel(level, WireTag(arg)) # "none"
                 /\ Len(WireFields(arg)) = 1
                 /\ IsWireSum(WireFields(arg)[1])
                 /\ WireTag(WireFields(arg)[1]) \notin
                        CatalogueTags(ChildLevel(level, WireTag(arg))) )
               => /\ res.ok
                  /\ IsOther(Ok(res.val.fields[1]), ChildLevel(level, WireTag(arg)),
                             WireFields(arg)[1])

C3_Witness ==
    /\ Done("parse_conway_cert_failure")
    /\ IsWireSum(arg)
    /\ arg.k = "Tagged"
    /\ WireTag(arg) = 0
    /\ Len(WireFields(arg)) = 3
    /\ IsOther(res, "cert", arg)

\* C4: at each level, a well-formed sum with a catalogue tag and the declared number
\* of fields decodes to the variant declared for that tag, never to Other and never
\* to an error.
C4_CatalogueTagIsItsVariant ==
    \A level \in Levels :
        (Done(LevelOp(level)) /\ WellFormed(level, arg)
           /\ WireTag(arg) \in CatalogueTags(level)) =>
            /\ res.ok
            /\ res.val.enum = FailureEnumName(level)
            /\ res.val.ctor = DeclaredVariant(level, WireTag(arg)).ctor
            /\ res.val.ctor # "Other"

C4_Witness ==
    /\ Done("parse_conway_ledger_failure")
    /\ WellFormed("ledger", arg)
    /\ WireTag(arg) = 2
    /\ res.ok
    /\ CtorPath(res.val) = <<"CertsFailure", "WithdrawalsNotInRewardsCERTS">>

\* C5: at each level, a sum in either wire form with a catalogue tag and one field
\* fewer or one field more than the variant declares is Err(Malformed); it is never
\* Other and never a variant with fields dropped or defaulted.
C5_WrongArityIsMalformed ==
    \A level \in Levels :
        (Done(LevelOp(level)) /\ IsWireSum(arg) /\ WireTag(arg) \in CatalogueTags(level)
           /\ \/ Len(WireFields(arg)) = DeclaredArity(level, WireTag(arg)) + 1
              \/ Len(WireFields(arg)) = DeclaredArity(level, WireTag(arg)) - 1)
            => IsMalformed(res)

C5_Witness ==
    /\ Done("parse_conway_utxo_failure")
    /\ arg.k = "Tagged"
    /\ arg.tag = 1
    /\ Len(WireFields(arg)) = 2
    /\ IsMalformed(res)

\* The body of a message with a well-formed envelope, as terms.
HasBody(reader) ==
    /\ reader.ok
    /\ reader.val.k = "Array"
    /\ Len(reader.val.items) = 2
    /\ reader.val.items[2].k = "Array"

BodyOf(reader) ==
    [i \in 1..Len(reader.val.items[2].items) |-> Term_from_value(reader.val.items[2].items[i])]

FailingIndices(body) == {i \in 1..Len(body) : ~parse_conway_ledger_failure(body[i]).ok}

FirstFailing(body) ==
    CHOOSE i \in FailingIndices(body) : \A j \in FailingIndices(body) : i <= j

\* C6: decode_conway_ledger_failures is Ok only when every element of the body
\* decodes, and then gives one failure per element, in order; when an element fails
\* the result is an Err, which holds no failure of the other elements.
C6_AllOrNothing ==
    (Done("decode_conway_ledger_failures") /\ HasBody(arg)) =>
        /\ res.ok <=> FailingIndices(BodyOf(arg)) = {}
        /\ res.ok =>
             /\ Len(res.val) = Len(BodyOf(arg))
             /\ \A i \in 1..Len(res.val) :
                    Ok(res.val[i]) = parse_conway_ledger_failure(BodyOf(arg)[i])
        /\ ~res.ok => DOMAIN res = {"ok", "err"}

C6_Witness ==
    /\ Done("decode_conway_ledger_failures")
    /\ HasBody(arg)
    /\ Len(BodyOf(arg)) = 3
    /\ FailingIndices(BodyOf(arg)) = {2}
    /\ ~res.ok

\* C7: the error of a message is the error of the failing body element with the
\* lowest index; the arity check of a recursive constructor comes before anything
\* about its child; the error of a nested level is the caller's error, unchanged.
C7_FirstViolation ==
    /\ (Done("decode_conway_ledger_failures") /\ HasBody(arg)
          /\ FailingIndices(BodyOf(arg)) # {})
         => res = parse_conway_ledger_failure(BodyOf(arg)[FirstFailing(BodyOf(arg))])
    /\ \A level \in Levels :
         (Done(LevelOp(level)) /\ IsWireSum(arg) /\ ChildLevel(level, WireTag(arg)) # "none")
           => IF Len(WireFields(arg)) # 1
              THEN /\ IsMalformed(res)
                   /\ res.err.msg = SinglePayloadMessage(level, WireTag(arg))
              ELSE ~ParseAt(ChildLevel(level, WireTag(arg)), WireFields(arg)[1]).ok
                     => res = ParseAt(ChildLevel(level, WireTag(arg)), WireFields(arg)[1])

C7_Witness ==
    /\ Done("decode_conway_ledger_failures")
    /\ HasBody(arg)
    /\ Len(BodyOf(arg)) = 3
    /\ FailingIndices(BodyOf(arg)) = {2, 3}
    /\ arg.val.items[2].items[2] = Chain(<<1, 0, 4>>, VInt(0))
    /\ arg.val.items[2].items[3] = VInt(2)
    /\ IsMalformed(res)
    /\ res.err.msg = "InputSetEmptyUTxO carries no payload"

\* C8: both entry points answer Err(Malformed) when the root of the message is a
\* bare integer or a map.
C8_RootMustBeASum ==
    (pc = "done" /\ op \in {"decode_predicate_failure", "decode_conway_ledger_failures"}
       /\ arg.ok /\ arg.val.k \in {"Integer", "Map"})
        => IsMalformed(res)

C8_Witness ==
    /\ Done("decode_predicate_failure")
    /\ arg.ok
    /\ arg.val.k = "Map"
    /\ Len(arg.val.entries) = 1
    /\ IsMalformed(res)

\* One wrapper off: the element of a one-element array, the content of a semantic
\* tag; anything else is left as it is.
Peel(term) ==
    CASE term.k = "Array" /\ Len(term.items) = 1 -> term.items[1]
      [] term.k = "Tagged" -> term.inner
      [] OTHER -> term

\* C9: the field of deleg tag 6 decodes to the same delegatee whether the byte
\* string is bare or under one or two wrappers, each a one-element array or a semantic
\* tag of any number.
C9_DelegateeUnderWrappers ==
    (Done("parse_conway_deleg_failure") /\ IsWireSum(arg) /\ WireTag(arg) = 6
       /\ Len(WireFields(arg)) = 1) =>
        \A n \in 0..2 :
            LET field == WireFields(arg)[1]
                bottom == IF n = 0 THEN field
                          ELSE IF n = 1 THEN Peel(field)
                          ELSE Peel(Peel(field))
            IN  bottom.k = "Bytes" =>
                    /\ res.ok
                    /\ res.val.ctor = "DelegateeStakePoolNotRegistered"
                    /\ res.val.fields.delegatee = bottom.bytes

C9_Witness ==
    /\ Done("parse_conway_deleg_failure")
    /\ IsWireSum(arg)
    /\ WireTag(arg) = 6
    /\ Len(WireFields(arg)) = 1
    /\ WireFields(arg)[1].k = "Tagged"
    /\ WireFields(arg)[1].tag = 24
    /\ Peel(WireFields(arg)[1]).k = "Array"
    /\ Peel(Peel(WireFields(arg)[1])).k = "Bytes"
    /\ res.ok
    /\ res.val.fields.delegatee = <<28, 218>>

\* C10: TaggedSum::from_term is Some exactly for a non-empty array whose first
\* element is an integer in u64, with that integer as the tag and the other elements
\* as the fields, and for a semantic tag around an array, with the tag number as the
\* tag and all the elements of the array as the fields, a leading integer among them;
\* it is None for every other term.
C10_RecognizerIsExact ==
    Done("TaggedSum_from_term") =>
        IF arg.k = "Array" /\ Len(arg.items) >= 1 /\ arg.items[1].k = "Integer"
             /\ ~arg.items[1].int.neg /\ arg.items[1].int.hi = 0
        THEN /\ res.some
             /\ res.val.tag = arg.items[1].int.lo
             /\ res.val.fields = Tail(arg.items)
        ELSE IF arg.k = "Tagged" /\ arg.inner.k = "Array"
        THEN /\ res.some
             /\ res.val.tag = arg.tag
             /\ res.val.fields = arg.inner.items
        ELSE ~res.some

C10_Witness ==
    /\ Done("TaggedSum_from_term")
    /\ arg.k = "Tagged"
    /\ arg.inner.k = "Array"
    /\ Len(arg.inner.items) = 3
    /\ arg.inner.items[1].k = "Integer"
    /\ res.some
    /\ Len(res.val.fields) = 3

--------------------------------------------------------------------------
\* The same constructor application in the other wire form.
OtherForm(term) ==
    IF term.k = "Array"
    THEN [k |-> "Tagged", tag |-> WireTag(term),
          inner |-> [k |-> "Array", items |-> WireFields(term)]]
    ELSE [k |-> "Array",
          items |-> <<[k |-> "Integer", int |-> [neg |-> FALSE, hi |-> 0, lo |-> term.tag]]>>
                      \o term.inner.items]

\* The same constructor application with its first field, a sum, in the other form.
OtherFormChild(term) ==
    IF term.k = "Array"
    THEN [term EXCEPT !.items[2] = OtherForm(@)]
    ELSE [term EXCEPT !.inner.items[1] = OtherForm(@)]

\* Two results of one level decoder are the same typed value or the same error.
SameResult(a, b) ==
    /\ a.ok = b.ok
    /\ a.ok => /\ CtorPath(a.val) = CtorPath(b.val)
               /\ Innermost(a.val).fields = Innermost(b.val).fields
    /\ ~a.ok => a.err = b.err

\* C11: the array form [t, f1, .., fn] and the semantic-tag form t([f1, .., fn]) of a
\* sum give the same result at each of the nine levels, also when it is the form of
\* the child of a recursive constructor that changes, and give the same TaggedSum to
\* the recognizer and to the root of the generic tree.
C11_BothFormsAlike ==
    /\ \A level \in Levels :
         (Done(LevelOp(level)) /\ IsWireSum(arg)) =>
            /\ SameResult(res, ParseAt(level, OtherForm(arg)))
            /\ ( /\ ChildLevel(level, WireTag(arg)) # "none"
                 /\ Len(WireFields(arg)) = 1
                 /\ IsWireSum(WireFields(arg)[1]) )
                 => SameResult(res, ParseAt(level, OtherFormChild(arg)))
    /\ (Done("TaggedSum_from_term") /\ IsWireSum(arg)) =>
         /\ res.some
         /\ TaggedSum_from_term(OtherForm(arg)).some
         /\ res.val = TaggedSum_from_term(OtherForm(arg)).val
    /\ (Done("TaggedTree_from_term") /\ IsWireSum(arg)) =>
         /\ res.node = "Sum"
         /\ TaggedTree_from_term(OtherForm(arg)).node = "Sum"
         /\ res.sum = TaggedTree_from_term(OtherForm(arg)).sum

C11_Witness ==
    /\ Done("parse_conway_certs_failure")
    /\ arg.k = "Tagged"
    /\ arg.tag = 1
    /\ Len(WireFields(arg)) = 1
    /\ IsWireSum(WireFields(arg)[1])
    /\ res.ok
    /\ CtorPath(res.val) = <<"CertFailure", "Other">>
    /\ SameResult(res, parse_conway_certs_failure(OtherForm(arg)))

--------------------------------------------------------------------------
\* Term::Integer of a number in u64.
TInt(n) == [k |-> "Integer", int |-> [neg |-> FALSE, hi |-> 0, lo |-> n]]

\* C12: decode_predicate_failure on [5, [1], "payload"] is the tree
\* Sum({tag 5, fields [[1], "payload"]}, [Sum({tag 1, fields []}, []),
\* Leaf(Text("payload"))]); on every array-form sum [t, f1, .., fn] it is a Sum with
\* tag t, the fields f1, .., fn and exactly n children.
C12_GenericViewKeepsShape ==
    (Done("decode_predicate_failure") /\ arg.ok) =>
        /\ arg.val = VArray(<<VInt(5), VArray(<<VInt(1)>>), VText("payload")>>) =>
             /\ res.ok
             /\ res.val.node = "Sum"
             /\ res.val.sum.tag = 5
             /\ res.val.sum.fields =
                  << [k |-> "Array", items |-> <<TInt(1)>>], [k |-> "Text", text |-> "payload"] >>
             /\ Len(res.val.children) = 2
             /\ res.val.children[1].node = "Sum"
             /\ res.val.children[1].sum.tag = 1
             /\ res.val.children[1].sum.fields = <<>>
             /\ res.val.children[1].children = <<>>
             /\ res.val.children[2].node = "Leaf"
             /\ res.val.children[2].term = [k |-> "Text", text |-> "payload"]
        /\ (Term_from_value(arg.val).k = "Array" /\ IsWireSum(Term_from_value(arg.val))) =>
             /\ res.ok
             /\ res.val.node = "Sum"
             /\ res.val.sum.tag = WireTag(Term_from_value(arg.val))
             /\ res.val.sum.fields = WireFields(Term_from_value(arg.val))
             /\ Len(res.val.children) = Len(arg.val.items) - 1

C12_Witness ==
    /\ Done("decode_predicate_failure")
    /\ arg = Ok(VArray(<<VInt(5), VArray(<<VInt(1)>>), VText("payload")>>))
    /\ res.ok
    /\ Len(res.val.children) = 2

--------------------------------------------------------------------------
\* The range of tags of each level, as the catalogue of the specification gives it.
ClaimedRange(level) ==
    CASE level = "ledger" -> 1..9
      [] level = "utxow" -> 0..18
      [] level = "utxo" -> 0..22
      [] level = "utxos" -> 0..1
      [] level = "certs" -> 0..1
      [] level = "cert" -> 1..3
      [] level = "deleg" -> 1..8
      [] level = "gov_cert" -> 0..5
      [] level = "gov" -> 0..18

\* C13: the lookup of each level succeeds exactly on the level's range of tags (ledger
\* 1..9, utxow 0..18, utxo 0..22, utxos 0..1, certs 0..1, cert 1..3, deleg 1..8,
\* gov-cert 0..5, gov 0..18) and gives the tag constructor with that discriminant, one
\* constructor and one named variant for a tag; tag 0 is Other at the ledger, cert and
\* deleg levels and a named variant at the other six.
C13_TagCatalogues ==
    \A level \in Levels :
        /\ CatalogueTags(level) = ClaimedRange(level)
        /\ Cardinality(DOMAIN TagEnum(level)) = Cardinality(ClaimedRange(level))
        /\ Len(FailureEnum(level)) = Cardinality(ClaimedRange(level)) + 1
        /\ FailureEnum(level)[Len(FailureEnum(level))].ctor = "Other"
        /\ Done(TryFromOp(level)) =>
             /\ res.ok <=> arg \in ClaimedRange(level)
             /\ res.ok => /\ res.val \in DOMAIN TagEnum(level)
                          /\ TagEnum(level)[res.val] = arg
        /\ (Done(LevelOp(level)) /\ IsWireSum(arg) /\ WireTag(arg) = 0) =>
             IF level \in {"ledger", "cert", "deleg"}
             THEN IsOther(res, level, arg)
             ELSE /\ res.ok => res.val.ctor = FailureEnum(level)[1].ctor
                  /\ WellFormed(level, arg) => res.ok

C13_Witness ==
    /\ Done("ConwayDelegPredicateFailureTag_try_from")
    /\ arg = 0
    /\ ~res.ok

--------------------------------------------------------------------------
\* The message of each level for a term that is no sum.
NotASumMessage(level) ==
    CASE level = "ledger" -> "ledger predicate failure node must be a tagged sum"
      [] level = "utxow" -> "utxow predicate failure must be a tagged sum"
      [] level = "utxo" -> "utxo predicate failure must be a tagged sum"
      [] level = "utxos" -> "utxos predicate failure must be a tagged sum"
      [] level = "certs" -> "certs predicate failure must be a tagged sum"
      [] level = "cert" -> "certificate predicate failure must be a tagged sum"
      [] level = "deleg" -> "deleg predicate failure must be a tagged sum"
      [] level = "gov_cert" -> "gov cert predicate failure must be a tagged sum"
      [] level = "gov" -> "gov predicate failure must be a tagged sum"

IsNotASum(result, level) == IsMalformed(result) /\ result.err.msg = NotASumMessage(level)

\* C14: a term that is no sum at a failure position is Err(Malformed) with the
\* 'must be a tagged sum' message of the level of that position: as the input of a
\* level decoder, as the single field of a recursive constructor, and as the first
\* element of a body that fails.  It is never Other and never left out.
C14_NotASumIsMalformed ==
    /\ \A level \in Levels :
         Done(LevelOp(level)) =>
            /\ ~IsWireSum(arg) => IsNotASum(res, level)
            /\ ( /\ IsWireSum(arg)
                 /\ ChildLevel(level, WireTag(arg)) # "none"
                 /\ Len(WireFields(arg)) = 1
                 /\ ~IsWireSum(WireFields(arg)[1]) )
                 => IsNotASum(res, ChildLevel(level, WireTag(arg)))
    /\ (Done("decode_conway_ledger_failures") /\ HasBody(arg)) =>
         \A i \in 1..Len(BodyOf(arg)) :
            ( /\ ~IsWireSum(BodyOf(arg)[i])
              /\ \A j \in 1..(i - 1) : parse_conway_ledger_failure(BodyOf(arg)[j]).ok )
              => IsNotASum(res, "ledger")

C14_Witness ==
    /\ Done("parse_conway_utxo_failure")
    /\ IsWireSum(arg)
    /\ WireTag(arg) = 0
    /\ Len(WireFields(arg)) = 1
    /\ WireFields(arg)[1].k = "Map"
    /\ IsNotASum(res, "utxos")

--------------------------------------------------------------------------
\* C15: decode_conway_ledger_failures is Err(Malformed) with the message of the
\* envelope when the message is no array of exactly two elements, and with the message
\* of the body when the second element is no array, whatever failures the message
\* holds; otherwise the elements of the second element, and nothing else, are decoded
\* as ledger failures.
C15_EnvelopeShape ==
    (Done("decode_conway_ledger_failures") /\ arg.ok) =>
        IF arg.val.k # "Array" \/ Len(arg.val.items) # 2
        THEN /\ IsMalformed(res)
             /\ res.err.msg = "expected [tag, body] predicate failure message"
        ELSE IF arg.val.items[2].k # "Array"
        THEN /\ IsMalformed(res)
             /\ res.err.msg = "predicate failure body must be an array"
        ELSE IF FailingIndices(BodyOf(arg)) = {}
        THEN /\ res.ok
             /\ Len(res.val) = Len(BodyOf(arg))
             /\ \A i \in 1..Len(res.val) :
                    Ok(res.val[i]) = parse_conway_ledger_failure(BodyOf(arg)[i])
        ELSE /\ ~res.ok
             /\ res = parse_conway_ledger_failure(BodyOf(arg)[FirstFailing(BodyOf(arg))])

C15_Witness ==
    /\ Done("decode_conway_ledger_failures")
    /\ arg.ok
    /\ arg.val.k = "Array"
    /\ Len(arg.val.items) = 3
    /\ arg.val.items[2].k = "Array"
    /\ Len(arg.val.items[2].items) = 1
    /\ parse_conway_ledger_failure(Term_from_value(arg.val.items[2].items[1])).ok
    /\ IsMalformed(res)

--------------------------------------------------------------------------
\* C16: decode_predicate_failure on a CBOR value is Err(Malformed) exactly when the
\* root is no tagged sum; when the root is one, the result is Ok of a tree whose root
\* is a Sum, never a Leaf, with the sum of the root.  Bytes that are no CBOR value
\* give the Cbor error.
C16_GenericEntryPoint ==
    Done("decode_predicate_failure") =>
        IF ~arg.ok
        THEN ~res.ok /\ res.err.variant = "Cbor"
        ELSE /\ IsMalformed(res) <=> ~IsWireSum(Term_from_value(arg.val))
             /\ res.ok <=> IsWireSum(Term_from_value(arg.val))
             /\ res.ok =>
                  /\ res.val.node = "Sum"
                  /\ res.val.sum.tag = WireTag(Term_from_value(arg.val))
                  /\ res.val.sum.fields = WireFields(Term_from_value(arg.val))

C16_Witness ==
    /\ Done("decode_predicate_failure")
    /\ arg.ok
    /\ arg.val.k = "Tag"
    /\ arg.val.inner.k = "Array"
    /\ Len(arg.val.inner.items) = 2
    /\ res.ok
    /\ res.val.node = "Sum"
    /\ res.val.sum.tag = arg.val.tag

--------------------------------------------------------------------------
\* The tree is the tree of the term: a Sum with the sum of the term and one child for
\* each field, in order, each the tree of its field, when the term is a tagged sum;
\* Leaf(term) when it is none.
RECURSIVE IsTreeOf(_, _)
IsTreeOf(tree, term) ==
    IF IsWireSum(term)
    THEN /\ tree.node = "Sum"
         /\ tree.sum.tag = WireTag(term)
         /\ tree.sum.fields = WireFields(term)
         /\ Len(tree.children) = Len(tree.sum.fields)
         /\ \A i \in 1..Len(tree.children) : IsTreeOf(tree.children[i], tree.sum.fields[i])
    ELSE /\ tree.node = "Leaf"
         /\ tree.term = term

\* C17: in the tree TaggedTree::from_term builds from any term, and in the tree
\* decode_predicate_failure returns, a node is a Sum exactly when its term is a tagged
\* sum and Leaf(term) otherwise, and a Sum has one child for each of its fields, the
\* i-th child being the tree of the i-th field.
C17_TreeBuilder ==
    /\ Done("TaggedTree_from_term") => IsTreeOf(res, arg)
    /\ (Done("decode_predicate_failure") /\ res.ok) =>
           IsTreeOf(res.val, Term_from_value(arg.val))

C17_Witness ==
    /\ Done("TaggedTree_from_term")
    /\ arg.k = "Tagged"
    /\ IsWireSum(arg)
    /\ Len(WireFields(arg)) = 3
    /\ WireFields(arg)[1].k = "Text"
    /\ IsWireSum(WireFields(arg)[2])
    /\ res.children[1].node = "Leaf"
    /\ res.children[2].node = "Sum"
    /\ res.children[3].node = "Leaf"

--------------------------------------------------------------------------
IsMalformedWith(result, context) == IsMalformed(result) /\ result.err.msg = context

\* C18: expect_fields, expect_single_field and expect_two_fields are
\* Err(Malformed(context)) exactly when the number of fields is not the expected one,
\* and give the fields back in wire order otherwise; expect_no_fields is
\* Err(Malformed(context)) exactly when there is a field.  So a variant of two fields
\* has wire field 0 as the first field of its declaration and wire field 1 as the
\* second.
C18_ArityHelpersKeepOrder ==
    /\ Done("expect_fields") =>
         IF Len(arg.fields) # arg.expected
         THEN IsMalformedWith(res, arg.context)
         ELSE res.ok /\ res.val = arg.fields
    /\ Done("expect_single_field") =>
         IF Len(arg.fields) # 1
         THEN IsMalformedWith(res, arg.context)
         ELSE res.ok /\ res.val = arg.fields[1]
    /\ Done("expect_two_fields") =>
         IF Len(arg.fields) # 2
         THEN IsMalformedWith(res, arg.context)
         ELSE res.ok /\ res.val = <<arg.fields[1], arg.fields[2]>>
    /\ Done("expect_no_fields") =>
         IF Len(arg.fields) >= 1
         THEN IsMalformedWith(res, arg.context)
         ELSE res.ok
    /\ \A level \in Levels :
         ( /\ Done(LevelOp(level))
           /\ IsWireSum(arg)
           /\ WireTag(arg) \in CatalogueTags(level)
           /\ DeclaredArity(level, WireTag(arg)) = 2
           /\ Len(WireFields(arg)) = 2 ) =>
            /\ res.ok
            /\ res.val.ctor = DeclaredVariant(level, WireTag(arg)).ctor
            /\ IF DeclaredVariant(level, WireTag(arg)).shape = "struct"
               THEN /\ res.val.fields[DeclaredVariant(level, WireTag(arg)).names[1]]
                         = WireFields(arg)[1]
                    /\ res.val.fields[DeclaredVariant(level, WireTag(arg)).names[2]]
                         = WireFields(arg)[2]
               ELSE res.val.fields = WireFields(arg)

C18_Witness ==
    /\ Done("parse_conway_utxow_failure")
    /\ IsWireSum(arg)
    /\ WireTag(arg) = 11
    /\ Len(WireFields(arg)) = 2
    /\ WireFields(arg)[1].k = "Bytes"
    /\ res.ok
    /\ res.val.ctor = "MissingRequiredDatums"
    /\ res.val.fields.missing_hashes = WireFields(arg)[1]
    /\ res.val.fields.provided_hashes = WireFields(arg)[2]

--------------------------------------------------------------------------
\* The enums of a typed failure, outermost first.
RECURSIVE EnumPath(_)
EnumPath(failure) ==
    IF failure.ctor \in {"UtxowFailure", "CertsFailure", "GovFailure", "UtxoFailure",
                         "UtxosFailure", "CertFailure", "DelegFailure", "GovCertFailure"}
    THEN <<failure.enum>> \o EnumPath(failure.fields[1])
    ELSE <<failure.enum>>

\* The chains of levels of the taxonomy, and their beginnings.
TaxonomyChains ==
    { <<"ConwayLedgerPredicateFailure">>,
      <<"ConwayLedgerPredicateFailure", "ConwayUtxowPredicateFailure">>,
      <<"ConwayLedgerPredicateFailure", "ConwayUtxowPredicateFailure",
        "ConwayUtxoPredicateFailure">>,
      <<"ConwayLedgerPredicateFailure", "ConwayUtxowPredicateFailure",
        "ConwayUtxoPredicateFailure", "ConwayUtxosPredicateFailure">>,
      <<"ConwayLedgerPredicateFailure", "ConwayCertsPredicateFailure">>,
      <<"ConwayLedgerPredicateFailure", "ConwayCertsPredicateFailure",
        "ConwayCertPredicateFailure">>,
      <<"ConwayLedgerPredicateFailure", "ConwayCertsPredicateFailure",
        "ConwayCertPredicateFailure", "ConwayDelegPredicateFailure">>,
      <<"ConwayLedgerPredicateFailure", "ConwayCertsPredicateFailure",
        "ConwayCertPredicateFailure", "ConwayGovCertPredicateFailure">>,
      <<"ConwayLedgerPredicateFailure", "ConwayGovPredicateFailure">> }

\* The payload of a variant that is not recursive is the wire fields as they came:
\* terms, not failures.  (The delegatee of deleg tag 6 is a byte string.)
PayloadIsOpaque(failure, level, term) ==
    IF failure.ctor = "Other"
    THEN failure.fields = <<[tag |-> WireTag(term), fields |-> WireFields(term)]>>
    ELSE \A i \in 1..DeclaredArity(level, WireTag(term)) :
            failure.fields[DeclaredVariant(level, WireTag(term)).names[i]] = WireFields(term)[i]

\* C19: a failure decode_conway_ledger_failures returns nests at most four levels of
\* the taxonomy, along ledger, utxow, utxo, utxos, or ledger, certs, cert and then deleg
\* or gov-cert, or ledger, gov, however deep the input nests; what the input holds
\* below stays a Term in the payload of the innermost variant, or in the fields of an
\* Other.
C19_TypedNestingIsBounded ==
    /\ (Done("decode_conway_ledger_failures") /\ res.ok) =>
         \A i \in 1..Len(res.val) :
            /\ Len(CtorPath(res.val[i])) <= 4
            /\ EnumPath(res.val[i]) \in TaxonomyChains
    /\ \A level \in Levels :
         (Done(LevelOp(level)) /\ res.ok) =>
            /\ Len(CtorPath(res.val)) <= 4
            /\ (ChildLevel(level, WireTag(arg)) = "none" /\ ~(level = "deleg" /\ WireTag(arg) = 6))
                 => /\ Len(CtorPath(res.val)) = 1
                    /\ PayloadIsOpaque(res.val, level, arg)

C19_Witness ==
    /\ Done("decode_conway_ledger_failures")
    /\ arg = Ok(VArray(<<VInt(2),
                         VArray(<<Chain(<<1, 0, 0, 1>>, Chain(<<1, 0, 0, 1>>, VInt(0)))>>)>>))
    /\ res.ok
    /\ CtorPath(res.val[1]) = <<"UtxowFailure", "UtxoFailure", "UtxosFailure", "CollectErrors">>
    /\ Innermost(res.val[1]).fields.errors = Term_from_value(Chain(<<1, 0, 0, 1>>, VInt(0)))

--------------------------------------------------------------------------
SameOutcome(a, b) ==
    /\ a.ok = b.ok
    /\ a.ok => a.val = b.val
    /\ ~a.ok => a.err = b.err

--------------------------------------------------------------------------
\* Calls that run side by side, each in steps.  A call of
\* decode_conway_ledger_failures reads its message, then decodes the elements of the
\* body one after the other; the decoding of an element is a chain of nested decoder
\* calls, one step for each.  A call of extract_bytes is its loop, one step for each
\* iteration.  A call of TaggedTree::from_term visits the terms it recurses into, one
\* step for each.

\* All the calls working in one place.
Frame_shared(t) == 1

\* Where the locals of the call of thread t live: they are owned values of the call
\* (Vec<Term>, Term), and the module has no static.
Frame(t) == t

MaxThreads == 2

Threads == 1..MaxThreads

NullTerm == [k |-> "Null"]

EmptyFrame ==
    [ pending |-> <<>>,       \* the body elements not yet decoded
      collected |-> <<>>,     \* the failures decoded so far
      element |-> NullTerm,   \* the body element that is being decoded
      callers |-> <<>>,       \* the decoder calls that wait for their child: level, tag
      level |-> "none",       \* the level of the innermost decoder call
      term |-> NullTerm,      \* its term; the `mut term` of extract_bytes
      depth |-> 0,            \* the number of nested decoder calls of the element
      work |-> <<>> ]         \* the terms TaggedTree::from_term has still to visit

ThreadMessages ==
    { EnvelopedScenarioMessage(<<218>>),
      VArray(<<VInt(2), VArray(<<Chain(<<0>>, VInt(0)), Chain(<<1, 0, 4>>, VInt(0))>>)>>),
      VArray(<<VText("ctx"), VArray(<<Chain(<<1, 0, 0, 1>>, Chain(<<1, 0, 0, 1>>, VInt(0)))>>)>>) }

ThreadCalls ==
    {<<"decode_conway_ledger_failures", r>> : r \in Readers(ThreadMessages)}
      \cup {<<"extract_bytes", Term_from_value(v)>> :
              v \in { VTag(24, VArray(<<VBytes(<<28, 218>>)>>)) }}
      \cup {<<"TaggedTree_from_term", Term_from_value(v)>> :
              v \in { VTag(5, VArray(<<VArray(<<VInt(1), VArray(<<VInt(5)>>)>>), VMap(<<>>)>>)) }}

InitThreads ==
    /\ op = "threads"
    /\ arg = NullTerm
    /\ res = Pending
    /\ pc = "threads"
    /\ history = <<>>
    /\ threads \in [Threads -> {[op |-> c[1], input |-> c[2], pc |-> "start", res |-> Pending] :
                                  c \in ThreadCalls}]
    /\ frames = [f \in Threads |-> EmptyFrame]

\* A step of thread t that leaves it at position next with the locals frame.
Continue(t, next, frame) ==
    /\ threads' = [threads EXCEPT ![t].pc = next]
    /\ frames' = [frames EXCEPT ![Frame(t)] = frame]
    /\ UNCHANGED <<op, arg, res, pc, history>>

\* The return of the call of thread t.
Finish(t, result) ==
    /\ threads' = [threads EXCEPT ![t].pc = "done", ![t].res = result]
    /\ UNCHANGED <<op, arg, res, pc, history, frames>>

\* decode_conway_ledger_failures up to the iteration: from_reader, the envelope, the body.
ReadMessage(t) ==
    /\ threads[t].pc = "start" /\ threads[t].op = "decode_conway_ledger_failures"
    /\ LET failures == Try(de_from_reader(threads[t].input), LAMBDA value:
                       Try(envelope_body(Term_from_value(value)), LAMBDA body:
                       body_failures(body)))
       IN  IF failures.ok
           THEN Continue(t, "next", [EmptyFrame EXCEPT !.pending = failures.val])
           ELSE Finish(t, failures)

\* The iterator of the body: the next element enters parse_conway_ledger_failure, or
\* the collection is complete.
NextElement(t) ==
    /\ threads[t].pc = "next"
    /\ IF Len(frames[Frame(t)].pending) = 0
       THEN Finish(t, Ok(frames[Frame(t)].collected))
       ELSE Continue(t, "decoder",
                     [frames[Frame(t)] EXCEPT !.element = Head(frames[Frame(t)].pending),
                                              !.pending = Tail(frames[Frame(t)].pending),
                                              !.callers = <<>>,
                                              !.level = "ledger",
                                              !.term = Head(frames[Frame(t)].pending),
                                              !.depth = 1])

\* The decoder call in progress finds a recursive constructor with its single field
\* and calls the decoder of the child.
IsNesting(level, term) ==
    /\ TaggedSum_from_term(term).some
    /\ ChildLevel(level, TaggedSum_from_term(term).val.tag) # "none"
    /\ Len(TaggedSum_from_term(term).val.fields) = 1

\* The value the callers of the innermost decoder call return: each wraps what its
\* child returned in its recursive constructor, Ok(Enum::Ctor(Box::new(child))).
RECURSIVE Boxed(_, _)
Boxed(callers, failure) ==
    IF Len(callers) = 0
    THEN failure
    ELSE [enum |-> FailureEnumName(Head(callers).level),
          ctor |-> DeclaredVariant(Head(callers).level, Head(callers).tag).ctor,
          fields |-> <<Boxed(Tail(callers), failure)>>]

\* One decoder call: it calls the decoder of the child, or it is the innermost call
\* and returns; its callers return in their turn (the ? on the child's error, the boxed
\* value otherwise), and the element is decoded, to a failure that is collected or to
\* the error of the whole call.
DecoderCall(t) ==
    /\ threads[t].pc = "decoder"
    /\ IF IsNesting(frames[Frame(t)].level, frames[Frame(t)].term)
       THEN Continue(t, "decoder",
                [frames[Frame(t)] EXCEPT
                    !.callers = Append(@, [level |-> frames[Frame(t)].level,
                                           tag |-> TaggedSum_from_term(frames[Frame(t)].term).val.tag]),
                    !.level = ChildLevel(@, TaggedSum_from_term(frames[Frame(t)].term).val.tag),
                    !.term = Head(TaggedSum_from_term(@).val.fields),
                    !.depth = @ + 1])
       ELSE IF ParseAt(frames[Frame(t)].level, frames[Frame(t)].term).ok
       THEN Continue(t, "next",
                [frames[Frame(t)] EXCEPT
                    !.collected =
                        Append(@, Boxed(frames[Frame(t)].callers,
                                        ParseAt(frames[Frame(t)].level, frames[Frame(t)].term).val))])
       ELSE Finish(t, ParseAt(frames[Frame(t)].level, frames[Frame(t)].term))

\* extract_bytes is entered: term is the argument.
EnterExtractBytes(t) ==
    /\ threads[t].pc = "start" /\ threads[t].op = "extract_bytes"
    /\ Continue(t, "loop", [EmptyFrame EXCEPT !.term = threads[t].input])

\* One iteration of the loop of extract_bytes.
ExtractBytesIteration(t) ==
    /\ threads[t].pc = "loop"
    /\ CASE frames[Frame(t)].term.k = "Bytes" -> Finish(t, Ok(frames[Frame(t)].term.bytes))
         [] frames[Frame(t)].term.k = "Array" /\ Len(frames[Frame(t)].term.items) = 1 ->
              Continue(t, "loop", [frames[Frame(t)] EXCEPT !.term = Head(@.items)])
         [] frames[Frame(t)].term.k = "Tagged" ->
              Continue(t, "loop", [frames[Frame(t)] EXCEPT !.term = @.inner])
         [] OTHER -> Finish(t, Err(Malformed("expected byte string payload")))

\* TaggedTree::from_term is entered on the argument.
EnterTreeBuilder(t) ==
    /\ threads[t].pc = "start" /\ threads[t].op = "TaggedTree_from_term"
    /\ Continue(t, "walk", [EmptyFrame EXCEPT !.work = <<threads[t].input>>])

\* One call of TaggedTree::from_term: on a sum it has its fields to recurse into, on
\* anything else it returns a Leaf; when nothing is left the tree is complete.
TreeBuilderCall(t) ==
    /\ threads[t].pc = "walk"
    /\ IF Len(frames[Frame(t)].work) = 0
       THEN Finish(t, TaggedTree_from_term(threads[t].input))
       ELSE Continue(t, "walk",
                [frames[Frame(t)] EXCEPT
                    !.work = (IF TaggedSum_from_term(Head(@)).some
                              THEN TaggedSum_from_term(Head(@)).val.fields
                              ELSE <<>>) \o Tail(@)])

ThreadsReadMessage == \E t \in Threads : ReadMessage(t)

ThreadsNextElement == \E t \in Threads : NextElement(t)

ThreadsDecoderCall == \E t \in Threads : DecoderCall(t)

ThreadsEnterExtractBytes == \E t \in Threads : EnterExtractBytes(t)

ThreadsExtractBytesIteration == \E t \in Threads : ExtractBytesIteration(t)

ThreadsEnterTreeBuilder == \E t \in Threads : EnterTreeBuilder(t)

ThreadsTreeBuilderCall == \E t \in Threads : TreeBuilderCall(t)

NextThreads ==
    \/ ThreadsReadMessage
    \/ ThreadsNextElement
    \/ ThreadsDecoderCall
    \/ ThreadsEnterExtractBytes
    \/ ThreadsExtractBytesIteration
    \/ ThreadsEnterTreeBuilder
    \/ ThreadsTreeBuilderCall

SpecThreads == InitThreads /\ [][NextThreads]_vars

\* Every call that can take a step takes one in the end.
SpecThreadsFair == SpecThreads /\ WF_vars(NextThreads)

\* The result of the call of a thread when it runs alone.
Alone(thread) ==
    CASE thread.op = "decode_conway_ledger_failures" -> decode_conway_ledger_failures(thread.input)
      [] thread.op = "extract_bytes" -> extract_bytes(thread.input)
      [] thread.op = "TaggedTree_from_term" -> Ok(TaggedTree_from_term(thread.input))

SameFailures(a, b) ==
    /\ Len(a) = Len(b)
    /\ \A i \in 1..Len(a) : SameResult(Ok(a[i]), Ok(b[i]))

\* The thread has the result of its call alone.
HasResultAlone(thread) ==
    CASE thread.op = "decode_conway_ledger_failures" ->
            /\ thread.res.ok = Alone(thread).ok
            /\ thread.res.ok => SameFailures(thread.res.val, Alone(thread).val)
            /\ ~thread.res.ok => thread.res.err = Alone(thread).err
      [] thread.op = "extract_bytes" ->
            /\ thread.res.ok = Alone(thread).ok
            /\ thread.res.ok => thread.res.val = Alone(thread).val
            /\ ~thread.res.ok => thread.res.err = Alone(thread).err
      [] thread.op = "TaggedTree_from_term" -> thread.res = Alone(thread).val

\* C21: when calls run side by side, under every interleaving of their steps each call
\* returns the result it returns alone: a step of a call reads and writes the locals of
\* that call only.
C21_CallsAreIndependent ==
    \A t \in DOMAIN threads : threads[t].pc = "done" => HasResultAlone(threads[t])

C21_Witness ==
    /\ DOMAIN threads = Threads
    /\ threads[1].op = "decode_conway_ledger_failures"
    /\ threads[1].pc = "done"
    /\ threads[1].res.ok
    /\ Len(threads[1].res.val) = 1
    /\ threads[2].op = "decode_conway_ledger_failures"
    /\ threads[2].input # threads[1].input
    /\ threads[2].pc = "decoder"
    /\ frames[Frame(2)].depth = 3
    /\ HasResultAlone(threads[1])

EntryPoints == {"decode_predicate_failure", "decode_conway_ledger_failures"}

IsCbor(result) == ~result.ok /\ result.err.variant = "Cbor"

\* C22: both entry points fail with ParseError::Cbor when the reader does not give a
\* CBOR item, whatever shape was expected; they fail with ParseError::Malformed only on
\* an item that was read; and a call that fails fails with one of the two.
C22_ErrorKinds ==
    \A f \in EntryPoints :
        Done(f) =>
            /\ ~arg.ok => IsCbor(res)
            /\ IsMalformed(res) => arg.ok
            /\ res.ok \/ IsCbor(res) \/ IsMalformed(res)

C22_Witness ==
    /\ Done("decode_conway_ledger_failures")
    /\ ~arg.ok
    /\ IsCbor(res)

IsWrapper(term) == (term.k = "Array" /\ Len(term.items) = 1) \/ term.k = "Tagged"

\* The term under all the wrappers around it.
RECURSIVE Unwrapped(_)
Unwrapped(term) == IF IsWrapper(term) THEN Unwrapped(Peel(term)) ELSE term

\* The term is a catalogued constructor of the level that is not recursive, with the
\* number of fields of its declaration.
IsLeafConstructor(level, term) ==
    /\ IsWireSum(term)
    /\ WireTag(term) \in CatalogueTags(level)
    /\ ChildLevel(level, WireTag(term)) = "none"
    /\ Len(WireFields(term)) = DeclaredArity(level, WireTag(term))

C24_ByteStringUnwrap ==
    Done("extract_bytes") =>
        IF Unwrapped(arg).k = "Bytes"
        THEN res.ok /\ res.val = Unwrapped(arg).bytes
        ELSE IsMalformedWith(res, "expected byte string payload")

\* A two-element array of byte strings under a semantic tag and a one-element array.
C24_Witness ==
    /\ Done("extract_bytes")
    /\ arg.k = "Tagged"
    /\ arg.inner.k = "Array"
    /\ Len(arg.inner.items) = 1
    /\ Unwrapped(arg).k = "Array"
    /\ Len(Unwrapped(arg).items) = 2
    /\ Unwrapped(arg).items[1].k = "Bytes"
    /\ IsMalformedWith(res, "expected byte string payload")

\* C25: when decode_conway_ledger_failures is Ok, the list has one entry for each
\* element of the body, entry i is what parse_conway_ledger_failure gives on element i
\* alone, and an empty body gives Ok of the empty list.
C25_OrderAndLength ==
    Done("decode_conway_ledger_failures") =>
        /\ res.ok =>
              /\ HasBody(arg)
              /\ Len(res.val) = Len(BodyOf(arg))
              /\ \A i \in 1..Len(res.val) :
                    SameResult(Ok(res.val[i]), parse_conway_ledger_failure(BodyOf(arg)[i]))
        /\ (HasBody(arg) /\ Len(BodyOf(arg)) = 0) => (res.ok /\ Len(res.val) = 0)

\* A body of three elements that decode to three different failures.
C25_Witness ==
    /\ Done("decode_conway_ledger_failures")
    /\ res.ok
    /\ Len(res.val) = 3
    /\ res.val[1].ctor = "CertsFailure"
    /\ res.val[2].ctor = "GovFailure"
    /\ res.val[3].ctor = "Other"
    /\ \A i \in 1..3 : SameResult(Ok(res.val[i]), parse_conway_ledger_failure(BodyOf(arg)[i]))

RECURSIVE TermSize(_)

RECURSIVE TermsSize(_)

\* The number of terms in a term.
TermSize(term) ==
    CASE term.k = "Array" -> 1 + TermsSize(term.items)
      [] term.k = "Tagged" -> 1 + TermSize(term.inner)
      [] term.k = "Map" ->
            1 + TermsSize([i \in 1..Len(term.entries) |-> term.entries[i][1]])
              + TermsSize([i \in 1..Len(term.entries) |-> term.entries[i][2]])
      [] OTHER -> 1

TermsSize(terms) ==
    IF Len(terms) = 0 THEN 0 ELSE TermSize(Head(terms)) + TermsSize(Tail(terms))

AllCallsReturned == \A t \in DOMAIN threads : threads[t].pc = "done"

\* The step is one of the call of thread t.
Stepped(t) == UNCHANGED <<op, arg, res, pc, history>> /\ frames'[Frame(t)] # frames[Frame(t)]

\* Each iteration of the loop of extract_bytes, each nested decoder call and each call
\* of TaggedTree::from_term works on less than the one before it.
StepShrinks ==
    \A t \in DOMAIN threads :
        /\ (threads[t].pc = "loop" /\ threads'[t].pc = "loop" /\ Stepped(t))
              => TermSize(frames'[Frame(t)].term) < TermSize(frames[Frame(t)].term)
        /\ (threads[t].pc = "decoder" /\ threads'[t].pc = "decoder" /\ Stepped(t))
              => TermSize(frames'[Frame(t)].term) < TermSize(frames[Frame(t)].term)
        /\ (threads[t].pc = "walk" /\ threads'[t].pc = "walk" /\ Stepped(t))
              => TermsSize(frames'[Frame(t)].work) < TermsSize(frames[Frame(t)].work)

NestedCallsAtMostFour == \A f \in DOMAIN frames : frames[f].depth <= 4

\* C26: every call of TaggedTree::from_term, of extract_bytes and of the taxonomy
\* decoders returns, with a value or an error; each iteration of the loop of
\* extract_bytes goes on with a strictly smaller term; and decode_conway_ledger_failures
\* has at most four decoder calls nested for an element of the body.
C26_Termination ==
    /\ <>[]AllCallsReturned
    /\ [][StepShrinks]_vars
    /\ []NestedCallsAtMostFour

\* An element of eight nested constructors has its four decoder calls while an
\* extract_bytes is in its loop under one wrapper.
C26_Witness ==
    /\ DOMAIN threads = Threads
    /\ threads[1].op = "decode_conway_ledger_failures"
    /\ threads[1].pc = "decoder"
    /\ frames[Frame(1)].depth = 4
    /\ frames[Frame(1)].level = "utxos"
    /\ TermSize(frames[Frame(1)].term) > 4
    /\ threads[2].op = "extract_bytes"
    /\ threads[2].pc = "loop"
    /\ TermSize(frames[Frame(2)].term) < TermSize(threads[2].input)

--------------------------------------------------------------------------
\* The declared catalogue of the Conway era: mod conway of rust_rule_errors.rs.  Each
\* enum is the sequence of its variants in declaration order, a variant being the tag
\* of its `Tag: n` doc comment, its name and the number of its fields.

\* pub enum LedgerPredicateFailure.
conway_LedgerPredicateFailure ==
    << [tag |-> 1, ctor |-> "ConwayUtxowFailure", fields |-> 1],
       [tag |-> 2, ctor |-> "ConwayCertsFailure", fields |-> 1],
       [tag |-> 3, ctor |-> "ConwayGovFailure", fields |-> 1],
       [tag |-> 4, ctor |-> "ConwayWdrlNotDelegatedToDRep", fields |-> 1],
       [tag |-> 5, ctor |-> "ConwayTreasuryValueMismatch", fields |-> 1],
       [tag |-> 6, ctor |-> "ConwayTxRefScriptsSizeTooBig", fields |-> 1],
       [tag |-> 7, ctor |-> "ConwayMempoolFailure", fields |-> 1],
       [tag |-> 8, ctor |-> "ConwayWithdrawalsMissingAccounts", fields |-> 1],
       [tag |-> 9, ctor |-> "ConwayIncompleteWithdrawals", fields |-> 1] >>

\* pub enum UtxowPredicateFailure.
conway_UtxowPredicateFailure ==
    << [tag |-> 0, ctor |-> "UtxoFailure", fields |-> 1],
       [tag |-> 1, ctor |-> "InvalidWitnessesUTXOW", fields |-> 1],
       [tag |-> 2, ctor |-> "MissingVKeyWitnessesUTXOW", fields |-> 1],
       [tag |-> 3, ctor |-> "MissingScriptWitnessesUTXOW", fields |-> 1],
       [tag |-> 4, ctor |-> "ScriptWitnessNotValidatingUTXOW", fields |-> 1],
       [tag |-> 5, ctor |-> "MissingTxBodyMetadataHash", fields |-> 1],
       [tag |-> 6, ctor |-> "MissingTxMetadata", fields |-> 1],
       [tag |-> 7, ctor |-> "ConflictingMetadataHash", fields |-> 1],
       [tag |-> 8, ctor |-> "InvalidMetadata", fields |-> 0],
       [tag |-> 9, ctor |-> "ExtraneousScriptWitnessesUTXOW", fields |-> 1],
       [tag |-> 10, ctor |-> "MissingRedeemers", fields |-> 1],
       [tag |-> 11, ctor |-> "MissingRequiredDatums", fields |-> 2],
       [tag |-> 12, ctor |-> "NotAllowedSupplementalDatums", fields |-> 2],
       [tag |-> 13, ctor |-> "PPViewHashesDontMatch", fields |-> 1],
       [tag |-> 14, ctor |-> "UnspendableUTxONoDatumHash", fields |-> 1],
       [tag |-> 15, ctor |-> "ExtraRedeemers", fields |-> 1],
       [tag |-> 16, ctor |-> "MalformedScriptWitnesses", fields |-> 1],
       [tag |-> 17, ctor |-> "MalformedReferenceScripts", fields |-> 1],
       [tag |-> 18, ctor |-> "ScriptIntegrityHashMismatch", fields |-> 2] >>

\* pub enum UtxoPredicateFailure.
conway_UtxoPredicateFailure ==
    << [tag |-> 0, ctor |-> "UtxosFailure", fields |-> 1],
       [tag |-> 1, ctor |-> "BadInputsUTxO", fields |-> 1],
       [tag |-> 2, ctor |-> "OutsideValidityIntervalUTxO", fields |-> 2],
       [tag |-> 3, ctor |-> "MaxTxSizeUTxO", fields |-> 1],
       [tag |-> 4, ctor |-> "InputSetEmptyUTxO", fields |-> 0],
       [tag |-> 5, ctor |-> "FeeTooSmallUTxO", fields |-> 1],
       [tag |-> 6, ctor |-> "ValueNotConservedUTxO", fields |-> 1],
       [tag |-> 7, ctor |-> "WrongNetwork", fields |-> 2],
       [tag |-> 8, ctor |-> "WrongNetworkWithdrawal", fields |-> 2],
       [tag |-> 9, ctor |-> "OutputTooSmallUTxO", fields |-> 1],
       [tag |-> 10, ctor |-> "OutputBootAddrAttrsTooBig", fields |-> 1],
       [tag |-> 11, ctor |-> "OutputTooBigUTxO", fields |-> 1],
       [tag |-> 12, ctor |-> "InsufficientCollateral", fields |-> 2],
       [tag |-> 13, ctor |-> "ScriptsNotPaidUTxO", fields |-> 1],
       [tag |-> 14, ctor |-> "ExUnitsTooBigUTxO", fields |-> 1],
       [tag |-> 15, ctor |-> "CollateralContainsNonADA", fields |-> 1],
       [tag |-> 16, ctor |-> "WrongNetworkInTxBody", fields |-> 1],
       [tag |-> 17, ctor |-> "OutsideForecast", fields |-> 1],
       [tag |-> 18, ctor |-> "TooManyCollateralInputs", fields |-> 1],
       [tag |-> 19, ctor |-> "NoCollateralInputs", fields |-> 0],
       [tag |-> 20, ctor |-> "IncorrectTotalCollateralField", fields |-> 2],
       [tag |-> 21, ctor |-> "BabbageOutputTooSmallUTxO", fields |-> 1],
       [tag |-> 22, ctor |-> "BabbageNonDisjointRefInputs", fields |-> 1] >>

\* pub enum UtxosPredicateFailure.
conway_UtxosPredicateFailure ==
    << [tag |-> 0, ctor |-> "ValidationTagMismatch", fields |-> 2],
       [tag |-> 1, ctor |-> "CollectErrors", fields |-> 1] >>

\* pub enum CertsPredicateFailure.
conway_CertsPredicateFailure ==
    << [tag |-> 0, ctor |-> "WithdrawalsNotInRewardsCERTS", fields |-> 1],
       [tag |-> 1, ctor |-> "CertFailure", fields |-> 1] >>

\* pub enum CertPredicateFailure.
conway_CertPredicateFailure ==
    << [tag |-> 1, ctor |-> "DelegFailure", fields |-> 1],
       [tag |-> 2, ctor |-> "PoolFailure", fields |-> 1],
       [tag |-> 3, ctor |-> "GovCertFailure", fields |-> 1] >>

\* pub enum DelegPredicateFailure.
conway_DelegPredicateFailure ==
    << [tag |-> 1, ctor |-> "IncorrectDepositDELEG", fields |-> 1],
       [tag |-> 2, ctor |-> "StakeKeyRegisteredDELEG", fields |-> 1],
       [tag |-> 3, ctor |-> "StakeKeyNotRegisteredDELEG", fields |-> 1],
       [tag |-> 4, ctor |-> "StakeKeyHasNonZeroRewardAccountBalanceDELEG", fields |-> 1],
       [tag |-> 5, ctor |-> "DelegateeDRepNotRegisteredDELEG", fields |-> 1],
       [tag |-> 6, ctor |-> "DelegateeStakePoolNotRegisteredDELEG", fields |-> 1],
       [tag |-> 7, ctor |-> "DepositIncorrectDELEG", fields |-> 1],
       [tag |-> 8, ctor |-> "RefundIncorrectDELEG", fields |-> 1] >>

\* pub enum GovCertPredicateFailure.
conway_GovCertPredicateFailure ==
    << [tag |-> 0, ctor |-> "ConwayDRepAlreadyRegistered", fields |-> 1],
       [tag |-> 1, ctor |-> "ConwayDRepNotRegistered", fields |-> 1],
       [tag |-> 2, ctor |-> "ConwayDRepIncorrectDeposit", fields |-> 1],
       [tag |-> 3, ctor |-> "ConwayCommitteeHasPreviouslyResigned", fields |-> 1],
       [tag |-> 4, ctor |-> "ConwayDRepIncorrectRefund", fields |-> 1],
       [tag |-> 5, ctor |-> "ConwayCommitteeIsUnknown", fields |-> 1] >>

\* pub enum GovPredicateFailure.
conway_GovPredicateFailure ==
    << [tag |-> 0, ctor |-> "GovActionsDoNotExist", fields |-> 1],
       [tag |-> 1, ctor |-> "MalformedProposal", fields |-> 1],
       [tag |-> 2, ctor |-> "ProposalProcedureNetworkIdMismatch", fields |-> 2],
       [tag |-> 3, ctor |-> "TreasuryWithdrawalsNetworkIdMismatch", fields |-> 2],
       [tag |-> 4, ctor |-> "ProposalDepositIncorrect", fields |-> 1],
       [tag |-> 5, ctor |-> "DisallowedVoters", fields |-> 1],
       [tag |-> 6, ctor |-> "ConflictingCommitteeUpdate", fields |-> 1],
       [tag |-> 7, ctor |-> "ExpirationEpochTooSmall", fields |-> 1],
       [tag |-> 8, ctor |-> "InvalidPrevGovActionId", fields |-> 1],
       [tag |-> 9, ctor |-> "VotingOnExpiredGovAction", fields |-> 1],
       [tag |-> 10, ctor |-> "ProposalCantFollow", fields |-> 2],
       [tag |-> 11, ctor |-> "InvalidPolicyHash", fields |-> 2],
       [tag |-> 12, ctor |-> "DisallowedProposalDuringBootstrap", fields |-> 1],
       [tag |-> 13, ctor |-> "DisallowedVotesDuringBootstrap", fields |-> 1],
       [tag |-> 14, ctor |-> "VotersDoNotExist", fields |-> 1],
       [tag |-> 15, ctor |-> "ZeroTreasuryWithdrawals", fields |-> 1],
       [tag |-> 16, ctor |-> "ProposalReturnAccountDoesNotExist", fields |-> 1],
       [tag |-> 17, ctor |-> "TreasuryWithdrawalReturnAccountsDoNotExist", fields |-> 1],
       [tag |-> 18, ctor |-> "UnelectedCommitteeVoters", fields |-> 1] >>

\* The enum of the catalogue for a level of the decoder.
ConwayCatalogue(level) ==
    CASE level = "ledger" -> conway_LedgerPredicateFailure
      [] level = "utxow" -> conway_UtxowPredicateFailure
      [] level = "utxo" -> conway_UtxoPredicateFailure
      [] level = "utxos" -> conway_UtxosPredicateFailure
      [] level = "certs" -> conway_CertsPredicateFailure
      [] level = "cert" -> conway_CertPredicateFailure
      [] level = "deleg" -> conway_DelegPredicateFailure
      [] level = "gov_cert" -> conway_GovCertPredicateFailure
      [] level = "gov" -> conway_GovPredicateFailure

CatalogueEntries(level) == {ConwayCatalogue(level)[i] : i \in DOMAIN ConwayCatalogue(level)}

\* The tag enum of the decoder and the declared enum name the same constructors with
\* the same tags.
SameTagTable(level) ==
    {<<name, TagEnum(level)[name]>> : name \in DOMAIN TagEnum(level)}
        = {<<c.ctor, c.tag>> : c \in CatalogueEntries(level)}

\* C27: at each of the nine levels the decoder and the Conway catalogue of
\* rust_rule_errors.rs agree.  The tag enum has the names and the numbers of the
\* `Tag: n` comments; try_from gives a tag its declared constructor and refuses a number
\* that no constructor declares; and the decoder takes a catalogued constructor only
\* with the number of fields of its declaration.
C27_DecoderAgreesWithCatalogue ==
    \A level \in Levels :
        /\ SameTagTable(level)
        /\ Done(TryFromOp(level)) =>
              /\ res.ok <=> \E c \in CatalogueEntries(level) : c.tag = arg
              /\ res.ok => \E c \in CatalogueEntries(level) : c.tag = arg /\ c.ctor = res.val
        /\ (Done(LevelOp(level)) /\ IsWireSum(arg)) =>
              \A c \in CatalogueEntries(level) :
                  c.tag = WireTag(arg) =>
                      /\ res.ok => Len(WireFields(arg)) = c.fields
                      /\ Len(WireFields(arg)) # c.fields => IsMalformed(res)
                      /\ c.fields = DeclaredArity(level, c.tag)

\* The decoder takes utxo tag 7 with the two fields WrongNetwork declares.
C27_Witness ==
    /\ Done("parse_conway_utxo_failure")
    /\ IsWireSum(arg)
    /\ WireTag(arg) = 7
    /\ \E c \in CatalogueEntries("utxo") :
            c.tag = 7 /\ c.ctor = "WrongNetwork" /\ c.fields = 2 /\ Len(WireFields(arg)) = c.fields
    /\ res.ok
    /\ res.val.ctor = "WrongNetwork"

\* First elements for an envelope: unsigned integers, and terms that are none.
EnvelopeHeads ==
    { VInt(2), VInt(7), VInteger(TRUE, 0, 1), VText("ctx"), VNull, VArray(<<>>),
      VArray(<<VInt(0), VInt(0)>>), VMap(<<>>) }

IsEnvelope(reader) == reader.ok /\ reader.val.k = "Array" /\ Len(reader.val.items) = 2

SameDecoding(a, b) ==
    /\ a.ok = b.ok
    /\ a.ok => SameFailures(a.val, b.val)
    /\ ~a.ok => a.err = b.err

\* C28: decode_conway_ledger_failures gives a two-element array the result it gives
\* every two-element array with the same second element, whatever the first elements
\* are; and a message whose first element is no unsigned integer, which it may accept,
\* is refused by decode_predicate_failure as not a tagged sum.
C28_EnvelopeHeadIsIgnored ==
    (Done("decode_conway_ledger_failures") /\ IsEnvelope(arg)) =>
        /\ \A head \in EnvelopeHeads :
              SameDecoding(res, decode_conway_ledger_failures(
                                    Ok(VArray(<<head, arg.val.items[2]>>))))
        /\ ~Term_as_unsigned(Term_from_value(arg.val.items[1])).some
              => IsMalformed(decode_predicate_failure(arg))

\* A message under the first element "ctx" that decodes to two failures.
C28_Witness ==
    /\ Done("decode_conway_ledger_failures")
    /\ IsEnvelope(arg)
    /\ arg.val.items[1].k = "Text"
    /\ res.ok
    /\ Len(res.val) = 2
    /\ SameDecoding(res, decode_conway_ledger_failures(Ok(VArray(<<VInt(7), arg.val.items[2]>>))))
    /\ IsMalformed(decode_predicate_failure(arg))

IsIntegerLed(term) == term.k = "Array" /\ Len(term.items) >= 1 /\ term.items[1].k = "Integer"

\* The integer is in 0 .. 2^64 - 1.
InU64(int) == ~int.neg /\ int.hi = 0

IsOutOfRangeLed(term) == IsIntegerLed(term) /\ ~InU64(term.items[1].int)

\* C29: the integer v that leads an array is taken as the tag exactly when
\* 0 <= v <= 2^64 - 1, and the tag is v.  An array led by a negative integer or by one
\* of 2^64 or more is no tagged sum: a Leaf holding it in the generic tree, Malformed
\* where a typed failure is expected, at the root or as the child of a recursive
\* constructor; 2^64 + 5 is not taken for the tag 5.
C29_TagRange ==
    /\ (Done("TaggedSum_from_term") /\ IsIntegerLed(arg)) =>
          /\ res.some <=> InU64(arg.items[1].int)
          /\ res.some => res.val.tag = arg.items[1].int.lo
    /\ (Done("TaggedTree_from_term") /\ IsOutOfRangeLed(arg)) =>
          (res.node = "Leaf" /\ res.term = arg)
    /\ \A level \in Levels :
          Done(LevelOp(level)) =>
              /\ IsOutOfRangeLed(arg) => IsMalformed(res)
              /\ ( /\ IsWireSum(arg)
                   /\ ChildLevel(level, WireTag(arg)) # "none"
                   /\ Len(WireFields(arg)) = 1
                   /\ IsOutOfRangeLed(WireFields(arg)[1]) ) => IsMalformed(res)

\* [2^64 + 5, 0] where a ledger failure is expected: tag 5 has one field there.
C29_Witness ==
    /\ Done("parse_conway_ledger_failure")
    /\ IsOutOfRangeLed(arg)
    /\ arg.items[1].int.hi = 1
    /\ arg.items[1].int.lo = 5
    /\ Len(arg.items) = 2
    /\ IsMalformedWith(res, "ledger predicate failure node must be a tagged sum")

RECURSIVE SumNodes(_)

RECURSIVE SumNodesOfAll(_)

\* The number of Sum nodes of a tree.
SumNodes(tree) == IF tree.node = "Sum" THEN 1 + SumNodesOfAll(tree.children) ELSE 0

SumNodesOfAll(trees) ==
    IF Len(trees) = 0 THEN 0 ELSE SumNodes(Head(trees)) + SumNodesOfAll(Tail(trees))

RECURSIVE ReachableSums(_)

RECURSIVE ReachableSumsOfAll(_)

\* The number of tagged sums of a term that are the term or a field of one of them.
ReachableSums(term) ==
    IF IsWireSum(term) THEN 1 + ReachableSumsOfAll(WireFields(term)) ELSE 0

ReachableSumsOfAll(terms) ==
    IF Len(terms) = 0 THEN 0 ELSE ReachableSums(Head(terms)) + ReachableSumsOfAll(Tail(terms))

RECURSIVE SumsWithin(_)

RECURSIVE SumsWithinAll(_)

\* The number of tagged sums anywhere in a term: in the items of its arrays, under its
\* semantic tags, in the keys and the values of its maps.
SumsWithin(term) ==
    (IF IsWireSum(term) THEN 1 ELSE 0)
      + CASE term.k = "Array" -> SumsWithinAll(term.items)
          [] term.k = "Tagged" /\ term.inner.k = "Array" -> SumsWithinAll(term.inner.items)
          [] term.k = "Tagged" -> SumsWithin(term.inner)
          [] term.k = "Map" ->
                SumsWithinAll([i \in 1..Len(term.entries) |-> term.entries[i][1]])
                  + SumsWithinAll([i \in 1..Len(term.entries) |-> term.entries[i][2]])
          [] OTHER -> 0

SumsWithinAll(terms) ==
    IF Len(terms) = 0 THEN 0 ELSE SumsWithin(Head(terms)) + SumsWithinAll(Tail(terms))

\* C30: TaggedTree::from_term makes a term that is no tagged sum (a map, an empty
\* array, an array that no unsigned integer leads, a semantic tag around what is no
\* array) the Leaf that holds it unchanged, without a Sum node for the tagged sums
\* inside it; and it makes a Sum node of every tagged sum that is the term or is reached
\* through the fields of Sum nodes, plain data or not, and of nothing else.
C30_LeavesAreNotEntered ==
    Done("TaggedTree_from_term") =>
        /\ ~IsWireSum(arg) =>
              /\ res.node = "Leaf"
              /\ DOMAIN res = {"node", "term"}
              /\ res.term = arg
        /\ SumNodes(res) = ReachableSums(arg)
        /\ IsWireSum(arg) =>
              /\ res.node = "Sum"
              /\ \A i \in 1..Len(WireFields(arg)) :
                    IF IsWireSum(WireFields(arg)[i])
                    THEN res.children[i].node = "Sum"
                    ELSE res.children[i].node = "Leaf" /\ res.children[i].term = WireFields(arg)[i]

\* An array led by a text, with the sum [1] in it: a Leaf.
C30_Witness ==
    /\ Done("TaggedTree_from_term")
    /\ arg.k = "Array"
    /\ Len(arg.items) >= 2
    /\ arg.items[1].k = "Text"
    /\ SumsWithin(arg) >= 1
    /\ ReachableSums(arg) = 0
    /\ res.node = "Leaf"
    /\ res.term = arg

====
